---- MODULE Spec2Model ----
(***************************************************************************)
(* Forecast synthesis and market aggregation of transformers-predictions.  *)
(*                                                                         *)
(*   src/update_predictions_1003.py   per-ticker forecast pipeline         *)
(*   src/data/process_candlestick.py  prediction-file processor and        *)
(*                                    market overview aggregator           *)
(*   src/generate_stats.py, src/fix_qqq_predictions.py  trend buckets      *)
(*   src/kronos_workflow.py           workflow steps, batch loading on a   *)
(*                                    thread pool, prediction summary      *)
(*   src/scripts/validate_data_structure.py  prediction file validator     *)
(*                                                                         *)
(* Numbers are fixed point.  A percentage is an integer count of           *)
(* hundredths of a percent (PctUnit per percent), so 1.0 % is 100.         *)
(* Tickers are integers whose order is the lexical order of their names.   *)
(* A timestamp is the reading of a clock that advances at every reading.   *)
(***************************************************************************)
EXTENDS Integers, Sequences, FiniteSets, TLC

VARIABLES
    arg,                \* input of the pure function under check
    ret,                \* its result, Unset until it was applied
    candlestick_data,   \* CandlestickDataProcessor.candlestick_data (insertion-ordered dict)
    market_overview,    \* CandlestickDataProcessor.market_overview
    clock,              \* the wall clock read by datetime.now()
    files,              \* the data folder: prediction file path -> content
    processed_files,    \* CandlestickDataProcessor.processed_files
    overview_file,      \* content of market_overview.json
    saves,              \* number of times save_processed_data wrote its files
    fs_ops,             \* file writes and removals done by the environment
    cycles,             \* processing cycles run so far
    parquet,            \* the ticker's parquet file as load_parquet_data returns it
    pc,                 \* which function of update_predictions_1003 was called
    predictions,        \* result of generate_predictions
    monte_carlo_paths,  \* result of generate_monte_carlo_paths
    prediction_json,    \* result of create_prediction_json
    data_file,          \* content of <ticker>_ohlcv_prediction.json
    success,            \* return value of process_ticker
    ticker_files,       \* per ticker: its parquet file, and whether its prediction file can be written
    tickers,            \* main: sorted(tickers)
    attempted,          \* main: tickers the loop has called process_ticker on
    success_count,      \* main: success_count
    failed_tickers,     \* main: failed_tickers
    saved,              \* tickers whose prediction file this run of main wrote
    main_pc,            \* main: "idle", "loop", "returned", or "raised" by an exception
    watch_calls,        \* per path: calls of process_prediction_file made by process_new_files
    args,               \* kronos_workflow main: the parsed command line, the --config file, the environment
    config,             \* KronosWorkflow.config
    deployment_manager, \* KronosWorkflow.deployment_manager
    wf_pc,              \* run_workflow: the step it is about to take
    steps,              \* the component calls made so far, each with its outcome
    results,            \* run_workflow: results
    futures,            \* prepare_batch_data: the futures, in submission order
    collected,          \* prepare_batch_data: futures the for loop is through with
    batch_data,         \* prepare_batch_data: batch_data (its keys)
    batch_failed,       \* prepare_batch_data: failed_tickers
    future_results,     \* what future.result(timeout=10) did for each collected future
    pool_pc,            \* prepare_batch_data: "idle", "collect" or "returned"
    validation_results, \* DataStructureValidator.validation_results
    data_dir,           \* the *_ohlcv_prediction.json files of the validator's data_dir
    validations         \* calls of validate_all_files so far

vars == <<arg, ret, candlestick_data, market_overview, clock,
          files, processed_files, overview_file, saves, fs_ops, cycles,
          parquet, pc, predictions, monte_carlo_paths, prediction_json,
          data_file, success,
          ticker_files, tickers, attempted, success_count, failed_tickers,
          saved, main_pc, watch_calls,
          args, config, deployment_manager, wf_pc, steps, results,
          futures, collected, batch_data, batch_failed, future_results, pool_pc,
          validation_results, data_dir, validations>>

run_vars == <<args, config, deployment_manager, wf_pc, steps, results>>

pool_vars == <<futures, collected, batch_data, batch_failed, future_results, pool_pc>>

validator_vars == <<validation_results, data_dir, validations>>

workflow_vars == <<run_vars, pool_vars, validator_vars>>

batch_vars == <<ticker_files, tickers, attempted, success_count, failed_tickers,
                saved, main_pc>>

ticker_vars == <<parquet, pc, predictions, monte_carlo_paths, prediction_json,
                 data_file, success>>

processor_vars == <<candlestick_data, market_overview, clock,
                    files, processed_files, overview_file, saves, fs_ops, cycles,
                    watch_calls>>

\* the result slot of a function that was not applied yet
Unset == [done |-> FALSE]

\* last_updated of an overview that was never aggregated (None)
NoTime == 0 - 1

\* hundredths of a percent in one percent
PctUnit == 10 * 10

Max(a, b) == IF a >= b THEN a ELSE b
Min(a, b) == IF a <= b THEN a ELSE b

Range(s) == {s[i] : i \in DOMAIN s}

(***************************************************************************)
(* Trend classification                                                    *)
(***************************************************************************)

\* a classifier that lets the boundary value +1.0 count as bullish
TrendOverviewGe(price_change_pct) ==
    IF price_change_pct >= 1 * PctUnit THEN "bullish"
    ELSE IF price_change_pct < -1 * PctUnit THEN "bearish"
    ELSE "neutral"

\* update_market_overview: if > 1 / elif < -1 / else
TrendOverview(price_change_pct) ==
    IF price_change_pct > 1 * PctUnit THEN "bullish"
    ELSE IF price_change_pct < -1 * PctUnit THEN "bearish"
    ELSE "neutral"

\* analyze_predictions: if > 1.0 / elif < -1.0 / else
TrendStats(pct_change) ==
    IF pct_change > 1 * PctUnit THEN "bullish"
    ELSE IF pct_change < -1 * PctUnit THEN "bearish"
    ELSE "neutral"

\* fix_qqq_predictions: direction from the unrounded price_change_pct
TrendQQQ(price_change_pct) ==
    IF price_change_pct > 1 * PctUnit THEN "Bullish"
    ELSE IF price_change_pct < -1 * PctUnit THEN "Bearish"
    ELSE "Neutral"

\* the capitalised direction label as the bucket name
Lower(direction) ==
    CASE direction = "Bullish" -> "bullish"
      [] direction = "Bearish" -> "bearish"
      [] direction = "Neutral" -> "neutral"

(***************************************************************************)
(* SpecTrend: the three classifiers applied to one price change percent    *)
(***************************************************************************)

\* largest magnitude of the price change percents tried, in hundredths
MaxPct == 150

PctInputs == (-MaxPct)..MaxPct

\* kronos_workflow main was not started
RunIdle ==
    /\ args = << >>
    /\ config = << >>
    /\ deployment_manager = "None"
    /\ wf_pc = "idle"
    /\ steps = << >>
    /\ results = << >>

\* prepare_batch_data was not called
PoolIdle ==
    /\ futures = << >>
    /\ collected = 0
    /\ batch_data = {}
    /\ batch_failed = << >>
    /\ future_results = << >>
    /\ pool_pc = "idle"

\* no DataStructureValidator was constructed
ValidatorIdle ==
    /\ validation_results = << >>
    /\ data_dir = << >>
    /\ validations = 0

WorkflowIdle ==
    /\ RunIdle
    /\ PoolIdle
    /\ ValidatorIdle

\* main of update_predictions_1003 was not started
MainIdle ==
    /\ ticker_files = << >>
    /\ tickers = << >>
    /\ attempted = 0
    /\ success_count = 0
    /\ failed_tickers = << >>
    /\ saved = {}
    /\ main_pc = "idle"

\* neither main nor the workflow was started
BatchIdle ==
    /\ WorkflowIdle
    /\ MainIdle

\* the forecast pipeline before any call
PipelineIdle ==
    /\ parquet = [found |-> FALSE, rows |-> << >>]
    /\ pc = "idle"
    /\ predictions = [none |-> TRUE, path |-> << >>]
    /\ monte_carlo_paths = << >>
    /\ prediction_json = << >>
    /\ data_file = << >>
    /\ success = FALSE

\* the forecast pipeline before any call, without input
TickerIdle ==
    /\ BatchIdle
    /\ PipelineIdle

\* the processor before it was constructed
FolderIdle ==
    /\ candlestick_data = << >>
    /\ market_overview = [total_tickers |-> 0]
    /\ clock = 0
    /\ files = << >>
    /\ processed_files = {}
    /\ overview_file = << >>
    /\ saves = 0
    /\ fs_ops = 0
    /\ cycles = 0
    /\ watch_calls = << >>

\* nothing of the processor is touched by a pure-function check
ProcessorIdle ==
    /\ TickerIdle
    /\ FolderIdle

\* the forecast scripts and the processor are not running
ScriptsIdle ==
    /\ MainIdle
    /\ PipelineIdle
    /\ FolderIdle

InitTrend ==
    /\ arg \in [price_change_pct : PctInputs]
    /\ ret = Unset
    /\ ProcessorIdle

ClassifyTrend ==
    /\ ~ret.done
    /\ ret' = [done     |-> TRUE,
               overview |-> TrendOverview(arg.price_change_pct),
               stats    |-> TrendStats(arg.price_change_pct),
               qqq      |-> TrendQQQ(arg.price_change_pct)]
    /\ UNCHANGED <<workflow_vars, batch_vars, arg, processor_vars, ticker_vars>>

NextTrend == ClassifyTrend

SpecTrend == InitTrend /\ [][NextTrend]_vars

(***************************************************************************)
(* Market overview aggregation                                             *)
(***************************************************************************)

\* length of every ranking list: the [:10] slices of update_market_overview
TOP_N == 10

\* CandlestickDataProcessor.__init__: the overview before any aggregation
InitOverview ==
    [total_tickers |-> 0, bullish_count |-> 0, bearish_count |-> 0,
     neutral_count |-> 0, top_gainers |-> << >>, top_losers |-> << >>,
     highest_volume |-> << >>, most_volatile |-> << >>, last_updated |-> NoTime]

\* whether y stays in front of a later element x with the given sort key
KeepsBefore(y, x, key, reverse) ==
    IF reverse THEN y[key] >= x[key] ELSE y[key] <= x[key]

\* x put behind every element that stays in front of it (s is sorted)
InsertSorted(s, x, key, reverse) ==
    LET k == Cardinality({i \in DOMAIN s : KeepsBefore(s[i], x, key, reverse)})
    IN  SubSeq(s, 1, k) \o <<x>> \o SubSeq(s, k + 1, Len(s))

RECURSIVE SortPrefix(_, _, _, _)
SortPrefix(s, key, reverse, n) ==
    IF n = 0 THEN << >>
    ELSE InsertSorted(SortPrefix(s, key, reverse, n - 1), s[n], key, reverse)

\* a sort that puts the smallest key first whatever `reverse` says
SortedIgnoringReverse(s, key, reverse) == SortPrefix(s, key, FALSE, Len(s))

\* list.sort(key=..., reverse=...) and sorted(): stable, also when reversed
Sorted(s, key, reverse) == SortPrefix(s, key, reverse, Len(s))

\* a slice that keeps one entry too many
FirstTenOffByOne(s) == SubSeq(s, 1, Min(Len(s), TOP_N + 1))

\* the slice [:10]
FirstTen(s) == SubSeq(s, 1, Min(Len(s), TOP_N))

\* the buckets of `if` / `if` / `else` in place of `if` / `elif` / `else`:
\* a bullish ticker falls through to the neutral list as well
BucketWithoutElif(data, trend) ==
    SelectSeq(data, LAMBDA d :
        \/ TrendOverview(d.price_change_percent) = trend
        \/ trend = "neutral" /\ TrendOverview(d.price_change_percent) = "bullish")

\* the tickers of one trend bucket, in iteration order of the dict
Bucket(data, trend) ==
    SelectSeq(data, LAMBDA d : TrendOverview(d.price_change_percent) = trend)

GainerEntries(data) ==
    [i \in DOMAIN data |->
        [ticker |-> data[i].ticker,
         change_percent |-> data[i].price_change_percent,
         price |-> data[i].latest_price]]

VolumeEntries(data) ==
    [i \in DOMAIN data |->
        [ticker |-> data[i].ticker,
         volume |-> data[i].average_volume,
         price |-> data[i].latest_price]]

VolatileEntries(data) ==
    [i \in DOMAIN data |->
        [ticker |-> data[i].ticker,
         volatility |-> data[i].volatility,
         price |-> data[i].latest_price]]

\* update_market_overview: the overview left in self.market_overview
UpdateMarketOverview(data, overview, now) ==
    IF data = << >> THEN overview
    ELSE
        LET gainers == Sorted(GainerEntries(data), "change_percent", TRUE)
            losers  == FirstTen(Sorted(gainers, "change_percent", FALSE))
            volume_leaders  == Sorted(VolumeEntries(data), "volume", TRUE)
            volatile_stocks == Sorted(VolatileEntries(data), "volatility", TRUE)
        IN  [total_tickers  |-> Len(data),
             bullish_count  |-> Len(Bucket(data, "bullish")),
             bearish_count  |-> Len(Bucket(data, "bearish")),
             neutral_count  |-> Len(Bucket(data, "neutral")),
             top_gainers    |-> FirstTen(gainers),
             top_losers     |-> losers,
             highest_volume |-> FirstTen(volume_leaders),
             most_volatile  |-> FirstTen(volatile_stocks),
             last_updated   |-> now]

(***************************************************************************)
(* SpecOverview: update_market_overview applied to one record set          *)
(***************************************************************************)

\* most records in a record set
MaxRecords == 11

\* the metrics of the records tried; a record set longer than a table
\* repeats values, so that equal ranking metrics occur
PctTable == <<250, -300, 20, 100, -100, 250, 0, -300, 120>>
VolumeTable == <<500, 300, 300, 900, 100, 700, 300, 200>>
VolatilityTable == <<15, 0, 40, 15, 5, 0, 30>>
Shifts == 0..2

Pick(table, t, shift) == table[((t - 1 + shift) % Len(table)) + 1]

\* the record process_prediction_file stores for ticker t
RecordOf(t, shift) ==
    [ticker |-> t,
     latest_price |-> 100 + t,
     price_change_percent |-> Pick(PctTable, t, shift),
     average_volume |-> Pick(VolumeTable, t, 2 * shift),
     volatility |-> Pick(VolatilityTable, t, 3 * shift),
     data_type |-> "timestamped"]

\* orders in which n files can have been inserted into the dict
InsertionOrders(n) ==
    { [i \in 1..n |-> i],
      [i \in 1..n |-> n + 1 - i],
      [i \in 1..n |-> ((i + (n \div 2) - 1) % n) + 1] }

RecordSets ==
    UNION { { [i \in 1..n |-> RecordOf(order[i], shift)] :
                order \in InsertionOrders(n), shift \in Shifts } :
            n \in 0..MaxRecords }

InitOverviewSpec ==
    /\ arg = [none |-> TRUE]
    /\ ret = Unset
    /\ candlestick_data \in RecordSets
    /\ market_overview = InitOverview
    /\ clock = 0
    /\ files = << >>
    /\ processed_files = {}
    /\ overview_file = << >>
    /\ saves = 0
    /\ fs_ops = 0
    /\ cycles = 0
    /\ watch_calls = << >>
    /\ TickerIdle

\* one call of update_market_overview
Aggregate ==
    /\ ~ret.done
    /\ ret' = [done |-> TRUE]
    /\ clock' = clock + 1
    /\ market_overview' = UpdateMarketOverview(candlestick_data, market_overview, clock')
    /\ UNCHANGED <<workflow_vars, batch_vars, arg, candlestick_data, files, processed_files, watch_calls,
                   overview_file, saves, fs_ops, cycles, ticker_vars>>

NextOverview == Aggregate

SpecOverview == InitOverviewSpec /\ [][NextOverview]_vars

(***************************************************************************)
(* Claims about trend classification and the market overview              *)
(***************************************************************************)

Tickers(list) == {list[i].ticker : i \in DOMAIN list}

\* the bucket the specification gives a price change percent
ExpectedTrend(p) ==
    IF p > 1 * PctUnit THEN "bullish"
    ELSE IF p < -1 * PctUnit THEN "bearish"
    ELSE "neutral"

\* C3: the trend is bullish strictly above +1.0 %, bearish strictly below
\* -1.0 %, neutral otherwise (so neutral at exactly +1.0 and -1.0), and
\* update_market_overview, analyze_predictions and fix_qqq_predictions
\* give the same bucket for the same price change percent.
C3_TrendClassification ==
    ret.done =>
        /\ ret.overview = ExpectedTrend(arg.price_change_pct)
        /\ ret.stats = ExpectedTrend(arg.price_change_pct)
        /\ Lower(ret.qqq) = ExpectedTrend(arg.price_change_pct)
        /\ (arg.price_change_pct \in {1 * PctUnit, -1 * PctUnit} =>
                /\ ret.overview = "neutral"
                /\ ret.stats = "neutral"
                /\ ret.qqq = "Neutral")

C3_Witness ==
    /\ ret.done
    /\ arg.price_change_pct = 1 * PctUnit
    /\ ret.overview = "neutral"

\* the price change percents of the specification's example: 2.5, -3.0, 0.2
IsExample(data) ==
    /\ Len(data) = 3
    /\ {data[i].price_change_percent : i \in DOMAIN data} = {250, -300, 20}

\* C4: after update_market_overview on a non-empty record set the three
\* bucket counts add up to total_tickers, which is the number of records;
\* records with 2.5, -3.0 and 0.2 give one ticker per bucket and the
\* ticker with 2.5 as top_gainers[0].
C4_BucketsPartition ==
    (ret.done /\ candlestick_data # << >>) =>
        /\ market_overview.total_tickers = Len(candlestick_data)
        /\ market_overview.bullish_count + market_overview.bearish_count
              + market_overview.neutral_count = market_overview.total_tickers
        /\ IsExample(candlestick_data) =>
              /\ market_overview.bullish_count = 1
              /\ market_overview.bearish_count = 1
              /\ market_overview.neutral_count = 1
              /\ \E i \in DOMAIN candlestick_data :
                    /\ candlestick_data[i].price_change_percent = 250
                    /\ market_overview.top_gainers[1].ticker = candlestick_data[i].ticker

C4_Witness ==
    /\ ret.done
    /\ IsExample(candlestick_data)
    /\ market_overview.total_tickers = 3

\* list is ordered by key: non-increasing if reverse, else non-decreasing
Ordered(list, key, reverse) ==
    \A i, j \in DOMAIN list :
        i < j => IF reverse THEN list[i][key] >= list[j][key]
                            ELSE list[i][key] <= list[j][key]

\* list holds distinct records of data, with the record's own metric, and no
\* record left out beats a record of the list
Extreme(list, key, field, reverse, data) ==
    /\ \A i, j \in DOMAIN list : i # j => list[i].ticker # list[j].ticker
    /\ \A i \in DOMAIN list : \E k \in DOMAIN data :
          /\ data[k].ticker = list[i].ticker
          /\ data[k][field] = list[i][key]
          /\ data[k].latest_price = list[i].price
    /\ \A k \in DOMAIN data : data[k].ticker \notin Tickers(list) =>
          \A i \in DOMAIN list :
              IF reverse THEN data[k][field] <= list[i][key]
                         ELSE data[k][field] >= list[i][key]

Ranked(list, key, field, reverse, data) ==
    /\ Len(list) = Min(TOP_N, Len(data))
    /\ Len(list) <= TOP_N
    /\ Ordered(list, key, reverse)
    /\ Extreme(list, key, field, reverse, data)

\* C5: every ranking list of a produced overview has min(10, records)
\* entries, is ordered as documented (gainers, volume and volatility
\* non-increasing, losers non-decreasing) and holds the extreme records.
C5_RankingLists ==
    (ret.done /\ candlestick_data # << >>) =>
        /\ Ranked(market_overview.top_gainers, "change_percent",
                  "price_change_percent", TRUE, candlestick_data)
        /\ Ranked(market_overview.top_losers, "change_percent",
                  "price_change_percent", FALSE, candlestick_data)
        /\ Ranked(market_overview.highest_volume, "volume",
                  "average_volume", TRUE, candlestick_data)
        /\ Ranked(market_overview.most_volatile, "volatility",
                  "volatility", TRUE, candlestick_data)

C5_Witness ==
    /\ ret.done
    /\ Len(candlestick_data) > TOP_N
    /\ Len(market_overview.top_gainers) = TOP_N
    /\ Len(market_overview.top_losers) = TOP_N

\* equal metrics appear in ascending ticker order
TiesByTicker(list, key) ==
    \A i, j \in DOMAIN list :
        (i < j /\ list[i][key] = list[j][key]) => list[i].ticker < list[j].ticker

\* C6: in each of the four ranking lists, records with equal ranking
\* metric appear in ascending lexical order of ticker.
C6_TiesLexical ==
    ret.done =>
        /\ TiesByTicker(market_overview.top_gainers, "change_percent")
        /\ TiesByTicker(market_overview.top_losers, "change_percent")
        /\ TiesByTicker(market_overview.highest_volume, "volume")
        /\ TiesByTicker(market_overview.most_volatile, "volatility")

(***************************************************************************)
(* Prediction files and their processing                                   *)
(***************************************************************************)

\* a / b rounded to the nearest integer, b > 0
RoundDiv(a, b) == (2 * a + b) \div (2 * b)

\* the largest r in lo..hi with r * r <= n, by bisection
RECURSIVE SqrtFrom(_, _, _)
SqrtFrom(n, lo, hi) ==
    IF lo >= hi THEN lo
    ELSE LET mid == (lo + hi + 1) \div 2
         IN  IF mid * mid > n THEN SqrtFrom(n, lo, mid - 1)
             ELSE SqrtFrom(n, mid, hi)

\* integer part of the square root of n >= 0
ISqrt(n) == SqrtFrom(n, 0, Min(n, 46340))

RECURSIVE SumTo(_, _)
SumTo(s, n) == IF n = 0 THEN 0 ELSE SumTo(s, n - 1) + s[n]

Sum(s) == SumTo(s, Len(s))

Last(s) == s[Len(s)]

\* the slice s[-k:]
LastK(s, k) == SubSeq(s, Max(1, Len(s) - k + 1), Len(s))

Closes(candles) == [i \in DOMAIN candles |-> candles[i].close]
Volumes(candles) == [i \in DOMAIN candles |-> candles[i].volume]

\* latest_price of a record without any candle (None)
NoPrice == 0 - 1

\* statistics.stdev(prices) / statistics.mean(prices) * 100, in hundredths
\* of a percent, cut to a tenth of a percent
StdevOverMean(prices) ==
    LET n  == Len(prices)
        sx == Sum(prices)
        sxx == Sum([i \in DOMAIN prices |-> prices[i] * prices[i]])
    IN  10 * ISqrt(RoundDiv((n * sxx - sx * sx) * n * 1000000, (n - 1) * sx * sx))

\* (price_change / start_price) * 100, in hundredths of a percent
ChangePercent(start_price, end_price) ==
    RoundDiv((end_price - start_price) * 100 * PctUnit, start_price)

\* a price change that falls back on the historical window when no actual
\* candle is there
PriceChangeOverHistory(historical, actual) ==
    IF historical # << >> /\ actual # << >>
    THEN ChangePercent(Last(historical).close, Last(actual).close)
    ELSE IF historical # << >>
    THEN ChangePercent(historical[1].close, Last(historical).close)
    ELSE 0

\* price_change_percent of process_ohlcv_file: from the last historical
\* close to the last actual close, 0 unless both lists have a candle
PriceChangePercent(historical, actual) ==
    IF historical # << >> /\ actual # << >>
    THEN ChangePercent(Last(historical).close, Last(actual).close)
    ELSE 0

\* process_ohlcv_file: << >> is None, <<r>> the processed record r
ProcessOhlcvFile(data, ticker) ==
    IF ~data.chart_data THEN << >>
    ELSE
        LET historical == data.historical
            actual == data.actual
            latest_price ==
                IF actual # << >> THEN Last(actual).close
                ELSE IF historical # << >> THEN Last(historical).close
                ELSE NoPrice
            moved == historical # << >> /\ actual # << >>
            volume_data ==
                IF actual # << >> THEN Volumes(LastK(actual, 5))
                ELSE IF historical # << >> THEN Volumes(LastK(historical, 5))
                ELSE << >>
            prices == Closes(LastK(actual, 10))
        IN  IF moved /\ Last(historical).close = 0 THEN << >>
            ELSE IF Len(prices) > 1 /\ Sum(prices) = 0 THEN << >>
            ELSE
              << [ticker |-> ticker,
                  historical_candlesticks |-> historical,
                  actual_candlesticks |-> actual,
                  latest_price |-> latest_price,
                  price_change_percent |-> PriceChangePercent(historical, actual),
                  average_volume |->
                      IF volume_data # << >>
                      THEN RoundDiv(Sum(volume_data), Len(volume_data)) ELSE 0,
                  volatility |->
                      IF Len(prices) > 1 THEN StdevOverMean(prices) ELSE 0,
                  data_type |-> "ohlcv_complete"] >>

\* process_timestamped_file
ProcessTimestampedFile(data, ticker) ==
    IF ~data.ohlcv_data THEN << >>
    ELSE
        LET candlesticks == data.candles
            n == Len(candlesticks)
        IN  IF n >= 5 /\ candlesticks[n - 4].close = 0 THEN << >>
            ELSE
              << [ticker |-> ticker,
                  latest_price |-> data.latest_close,
                  price_change_percent |->
                      IF n >= 5
                      THEN ChangePercent(candlesticks[n - 4].close,
                                         candlesticks[n].close)
                      ELSE 0,
                  average_volume |-> data.average_volume,
                  volatility |-> data.volatility_percent,
                  data_type |-> "timestamped"] >>

\* self.candlestick_data[ticker] = record: a known key keeps its place
Put(data, record) ==
    IF \E i \in DOMAIN data : data[i].ticker = record.ticker
    THEN [i \in DOMAIN data |->
            IF data[i].ticker = record.ticker THEN record ELSE data[i]]
    ELSE Append(data, record)

\* a store that skips the truth test and keeps a placeholder for None
StoreAlways(data, ticker, processed_data) ==
    IF processed_data # << >> THEN Put(data, processed_data[1])
    ELSE Put(data, [ticker |-> ticker, latest_price |-> NoPrice,
                    price_change_percent |-> 0, average_volume |-> 0,
                    volatility |-> 0, data_type |-> "none"])

\* if processed_data: self.candlestick_data[ticker] = processed_data
StoreIfProcessed(data, ticker, processed_data) ==
    IF processed_data # << >> THEN Put(data, processed_data[1]) ELSE data

\* process_prediction_file: the candlestick_data it leaves; a file that
\* does not load as JSON raises inside the try and stores nothing
ProcessPredictionFile(data, path, content) ==
    IF ~content.json_ok THEN data
    ELSE IF path.kind = "ohlcv"
         THEN StoreIfProcessed(data, path.ticker,
                               ProcessOhlcvFile(content, path.ticker))
         ELSE StoreIfProcessed(data, path.ticker,
                               ProcessTimestampedFile(content, path.ticker))

\* the for loop over file paths of process_new_files and process_all_files
RECURSIVE ProcessEach(_, _, _)
ProcessEach(data, paths, fs) ==
    IF paths = << >> THEN data
    ELSE ProcessEach(ProcessPredictionFile(data, Head(paths), fs[Head(paths)]),
                     Tail(paths), fs)

(***************************************************************************)
(* SpecCycles: the data folder and the processing cycles                   *)
(***************************************************************************)

\* tickers with prediction files in the data folder
MaxCycleTickers == 2
\* file writes and removals between and before the cycles
MaxFsOps == 2
\* calls of process_new_files and process_all_files
MaxCycles == 2

Kinds == {"ohlcv", "timestamped"}

\* <ticker>_ohlcv_prediction.json and <ticker>_prediction_<stamp>.json
Paths == [ticker : 1..MaxCycleTickers, kind : Kinds]

Absent == [kind |-> "absent"]

\* a file that json.load rejects
BadJson(kind) == [kind |-> kind, json_ok |-> FALSE]

HistoricalCandles == <<[close |-> 98, volume |-> 400], [close |-> 100, volume |-> 600]>>

\* a record as create_prediction_json writes it: no actual candle yet
OhlcvFresh ==
    [kind |-> "ohlcv", json_ok |-> TRUE, chart_data |-> TRUE,
     historical |-> HistoricalCandles, actual |-> << >>]

\* the same record after the actual candles were filled in (+3.0 %)
OhlcvBackfilled ==
    [kind |-> "ohlcv", json_ok |-> TRUE, chart_data |-> TRUE,
     historical |-> HistoricalCandles,
     actual |-> <<[close |-> 101, volume |-> 500], [close |-> 103, volume |-> 700]>>]

\* JSON without the "chart_data" key
OhlcvNoChart ==
    [kind |-> "ohlcv", json_ok |-> TRUE, chart_data |-> FALSE,
     historical |-> << >>, actual |-> << >>]

\* a timestamped file with five candles falling by 4.0 %
TimestampedFalling ==
    [kind |-> "timestamped", json_ok |-> TRUE, ohlcv_data |-> TRUE,
     candles |-> [i \in 1..5 |-> [close |-> 101 - i, volume |-> 800]],
     latest_close |-> 96, volatility_percent |-> 120, average_volume |-> 800]

\* JSON without the "ohlcv_data" key
TimestampedNoData ==
    [kind |-> "timestamped", json_ok |-> TRUE, ohlcv_data |-> FALSE,
     candles |-> << >>, latest_close |-> 0, volatility_percent |-> 0,
     average_volume |-> 0]

Contents(kind) ==
    IF kind = "ohlcv"
    THEN {BadJson(kind), OhlcvNoChart, OhlcvFresh, OhlcvBackfilled}
    ELSE {BadJson(kind), TimestampedNoData, TimestampedFalling}

Present(fs, kind) == {p \in Paths : p.kind = kind /\ fs[p] # Absent}

\* the orders in which glob can list a set of paths
Orderings(S) ==
    {q \in [1..Cardinality(S) -> S] : \A i, j \in DOMAIN q : i # j => q[i] # q[j]}

\* find_prediction_files: ohlcv_files + timestamped_files
FindPredictionFiles(fs) ==
    {o \o t : o \in Orderings(Present(fs, "ohlcv")),
              t \in Orderings(Present(fs, "timestamped"))}

InitCycles ==
    /\ arg = [none |-> TRUE]
    /\ ret = Unset
    /\ candlestick_data = << >>
    /\ market_overview = InitOverview
    /\ clock = 0
    /\ files = [p \in Paths |-> Absent]
    /\ processed_files = {}
    /\ overview_file = << >>
    /\ saves = 0
    /\ fs_ops = 0
    /\ cycles = 0
    /\ watch_calls = [p \in Paths |-> 0]
    /\ TickerIdle

\* a prediction file is written (created or overwritten) in the data folder
WriteFile ==
    /\ fs_ops < MaxFsOps
    /\ \E p \in Paths : \E c \in Contents(p.kind) :
          /\ files[p] # c
          /\ files' = [files EXCEPT ![p] = c]
    /\ fs_ops' = fs_ops + 1
    /\ UNCHANGED <<workflow_vars, batch_vars, arg, ret, candlestick_data, market_overview, clock,
                   processed_files, watch_calls, overview_file, saves, cycles, ticker_vars>>

\* a prediction file is removed from the data folder
RemoveFile ==
    /\ fs_ops < MaxFsOps
    /\ \E p \in Paths :
          /\ files[p] # Absent
          /\ files' = [files EXCEPT ![p] = Absent]
    /\ fs_ops' = fs_ops + 1
    /\ UNCHANGED <<workflow_vars, batch_vars, arg, ret, candlestick_data, market_overview, clock,
                   processed_files, watch_calls, overview_file, saves, cycles, ticker_vars>>

\* a loop that marks a path only when its file loaded as JSON
MarkLoaded(processed, paths, fs) ==
    processed \cup {p \in Range(paths) : fs[p].json_ok}

\* self.processed_files.add(file_path), after every call whatever it did
MarkProcessed(processed, paths, fs) == processed \cup Range(paths)

\* the tail shared by both cycles: process the paths, mark them processed,
\* update_market_overview, save_processed_data
RunCycle(paths) ==
    /\ candlestick_data' = ProcessEach(candlestick_data, paths, files)
    /\ processed_files' = MarkProcessed(processed_files, paths, files)
    /\ market_overview' = UpdateMarketOverview(candlestick_data', market_overview, clock')
    /\ overview_file' = <<market_overview'>>
    /\ saves' = saves + 1

\* process_new_files, one pass of the watch loop
ProcessNewFiles ==
    /\ cycles < MaxCycles
    /\ cycles' = cycles + 1
    /\ clock' = clock + 1
    /\ \E prediction_files \in FindPredictionFiles(files) :
          LET new_files == SelectSeq(prediction_files,
                                     LAMBDA f : f \notin processed_files)
          IN  /\ watch_calls' = [p \in Paths |->
                    watch_calls[p] + Cardinality({i \in DOMAIN new_files : new_files[i] = p})]
              /\ IF new_files # << >>
                 THEN RunCycle(new_files)
                 ELSE UNCHANGED <<candlestick_data, processed_files,
                                  market_overview, overview_file, saves>>
    /\ UNCHANGED <<workflow_vars, batch_vars, arg, ret, files, fs_ops, ticker_vars>>

\* process_all_files, the single run
ProcessAllFiles ==
    /\ cycles < MaxCycles
    /\ cycles' = cycles + 1
    /\ clock' = clock + 1
    /\ \E prediction_files \in FindPredictionFiles(files) :
          RunCycle(prediction_files)
    /\ UNCHANGED <<workflow_vars, batch_vars, arg, ret, files, fs_ops, ticker_vars,
                   watch_calls>>

NextCycles ==
    \/ WriteFile
    \/ RemoveFile
    \/ ProcessNewFiles
    \/ ProcessAllFiles

SpecCycles == InitCycles /\ [][NextCycles]_vars

(***************************************************************************)
(* Claims about the processing cycles                                      *)
(***************************************************************************)

\* content c of path p loads and yields a record
Processable(p, c) ==
    /\ c # Absent
    /\ c.json_ok
    /\ IF p.kind = "ohlcv"
       THEN ProcessOhlcvFile(c, p.ticker) # << >>
       ELSE ProcessTimestampedFile(c, p.ticker) # << >>

\* the tickers with a file in the folder that processes successfully
LiveTickers(fs) == {p.ticker : p \in {q \in Paths : Processable(q, fs[q])}}

\* the overview computed from a record set and nothing else, stamped now
Recomputed(data, now) ==
    [UpdateMarketOverview(data, InitOverview, now) EXCEPT !.last_updated = now]

\* the step ran update_market_overview and save_processed_data
AggregatorRan == saves' = saves + 1

\* C7: every run of update_market_overview leaves an overview that is
\* computed from the record set alone and stamped with the time of that
\* run, also when the record set is empty.
C7_FreshRecompute ==
    [][AggregatorRan => market_overview' = Recomputed(candlestick_data', clock')]_vars

ZeroOverview(o) ==
    /\ o.total_tickers = 0
    /\ o.bullish_count = 0
    /\ o.bearish_count = 0
    /\ o.neutral_count = 0
    /\ o.top_gainers = << >>
    /\ o.top_losers = << >>
    /\ o.highest_volume = << >>
    /\ o.most_volatile = << >>

\* C8: a cycle that starts without records and finds no file that
\* processes successfully completes, stores no record and leaves an
\* overview with all four counts zero and all four ranking lists empty,
\* which is also what it saves.
C8_EmptyTolerated ==
    [][(cycles' = cycles + 1 /\ candlestick_data = << >> /\ LiveTickers(files) = {}) =>
          /\ candlestick_data' = << >>
          /\ ZeroOverview(market_overview')
          /\ AggregatorRan => overview_file' = <<market_overview'>>]_vars

C8_Witness ==
    /\ saves > 0
    /\ processed_files # {}
    /\ candlestick_data = << >>
    /\ ZeroOverview(market_overview)
    /\ overview_file = <<market_overview>>

\* C9: the overview left by a cycle counts and ranks only tickers that have
\* a prediction file in the folder which processes successfully; a ticker
\* whose file was removed, or whose files all fail, is not in it.
C9_NoStaleRecords ==
    [][AggregatorRan =>
          /\ Tickers(market_overview'.top_gainers) \subseteq LiveTickers(files)
          /\ market_overview'.total_tickers <= Cardinality(LiveTickers(files))]_vars

(***************************************************************************)
(* Forecast dates (generate_predictions, the date of forecast day i)       *)
(*                                                                         *)
(* A date is its proleptic Gregorian ordinal (date.toordinal()); the       *)
(* 'YYYY-MM-DD' strings the program stores order and compare as the        *)
(* ordinals do.                                                            *)
(***************************************************************************)

\* LOOKBACK_END = "2025-10-03", a Friday
LOOKBACK_END == 739527
PREDICTION_DAYS == 5

\* date.weekday(): Monday is 0, Sunday is 6
Weekday(d) == (d - 1) % 7

\* while pred_date.weekday() >= 5: pred_date += timedelta(days=1)
RECURSIVE SkipWeekend(_)
SkipWeekend(d) == IF Weekday(d) >= 5 THEN SkipWeekend(d + 1) ELSE d

\* the date given to the i-th candle of a path, i = 1 for range()'s 0:
\* last_date + timedelta(days=i+1) over range(prediction_days), then the
\* weekend skip
PredDate(last_date, i) == SkipWeekend(last_date + i)

PredDates(last_date, prediction_days) ==
    [i \in 1..prediction_days |-> PredDate(last_date, i)]

\* days before LOOKBACK_END on which a history may end
DateSpan == 13

InitDates ==
    /\ arg \in [last_date : {d \in (LOOKBACK_END - DateSpan)..LOOKBACK_END :
                                Weekday(d) < 5},
                prediction_days : 0..PREDICTION_DAYS]
    /\ ret = Unset
    /\ ProcessorIdle

\* the dates generate_predictions gives the candles of one path
ForecastDates ==
    /\ ~ret.done
    /\ ret' = [done |-> TRUE,
               dates |-> PredDates(arg.last_date, arg.prediction_days)]
    /\ UNCHANGED <<workflow_vars, batch_vars, arg, processor_vars, ticker_vars>>

NextDates == ForecastDates

SpecDates == InitDates /\ [][NextDates]_vars

\* the first weekday strictly after d
NextWeekday(d) == CHOOSE e \in (d + 1)..(d + 3) :
                      /\ Weekday(e) < 5
                      /\ \A f \in (d + 1)..(e - 1) : Weekday(f) >= 5

\* C2: forecast day 1 is dated the first weekday after the last historical
\* date and day i+1 the first weekday after day i, so the dates of a path
\* strictly increase and skip weekends; a history ending Friday 2025-10-03
\* gives 2025-10-06 .. 2025-10-10 for five days.
C2_SequentialWalk ==
    ret.done =>
        /\ \A i \in DOMAIN ret.dates :
              /\ Weekday(ret.dates[i]) < 5
              /\ ret.dates[i] =
                    NextWeekday(IF i = 1 THEN arg.last_date ELSE ret.dates[i - 1])
        /\ \A i, j \in DOMAIN ret.dates : i < j => ret.dates[i] < ret.dates[j]
        /\ (arg.last_date = LOOKBACK_END /\ arg.prediction_days = PREDICTION_DAYS) =>
              ret.dates = [i \in 1..5 |-> LOOKBACK_END + 2 + i]

(***************************************************************************)
(* The per-ticker forecast pipeline (update_predictions_1003.py)           *)
(*                                                                         *)
(* A price is an integer count of hundredths of a cent, a return or a      *)
(* volatility an integer count of 1/10000 (ReturnUnit per 1.0).  A         *)
(* standard normal draw z is an integer, a uniform draw u a count of       *)
(* quarters, 0 <= u < 4.                                                   *)
(***************************************************************************)

ReturnUnit == 100 * 100
\* price units in one cent, the resolution of round(x, 2)
CentUnit == 10 * 10
\* denominator of the uniform draws
UniformUnit == 2 * 2

LOOKBACK_DAYS == 120
\* the minimum history: len(historical_data) < 20
MIN_HISTORY == 20
\* momentum = np.sign(recent_mean) * 0.002
MOMENTUM == 20

Sign(x) == IF x > 0 THEN 1 ELSE IF x < 0 THEN -1 ELSE 0

\* round(x, 2): to a whole cent, a tie to the even cent
Round2(x) ==
    LET q == x \div CentUnit
        r == x % CentUnit
    IN  CentUnit * (IF 2 * r > CentUnit \/ (2 * r = CentUnit /\ q % 2 = 1)
                    THEN q + 1 ELSE q)

\* Series.pct_change().dropna(): close[t] / close[t-1] - 1
Returns(closes) ==
    [t \in 1..(Len(closes) - 1) |->
        RoundDiv((closes[t + 1] - closes[t]) * ReturnUnit, closes[t])]

Mean(xs) == RoundDiv(Sum(xs), Len(xs))

\* Series.std(): the sample standard deviation (ddof = 1)
Std(xs) ==
    LET m == Mean(xs)
    IN  ISqrt(RoundDiv(Sum([i \in DOMAIN xs |-> (xs[i] - m) * (xs[i] - m)]),
                       Len(xs) - 1))

\* the statistics generate_predictions derives from the window
TrendSignal(historical_data) ==
    LET returns == Returns(Closes(historical_data))
        recent_returns == LastK(returns, 20)
    IN  [mean_return |-> Mean(returns),
         volatility |-> Std(returns),
         recent_mean |-> Mean(recent_returns),
         recent_volatility |-> Std(recent_returns),
         avg_volume |-> Mean(Volumes(LastK(historical_data, 20))),
         last_close |-> Last(historical_data).close,
         last_date |-> Last(historical_data).date]

\* np.random.uniform(low, high) for the draw u: low + (high - low) * u / 4,
\* also when high < low
Uniform(low, high, u) == low + RoundDiv((high - low) * u, UniformUnit)

\* current_price * (1 + daily_return), with daily_return = weighted_return
\* + momentum + np.random.normal(0, recent_volatility)
NextPrice(current_price, signal, z) ==
    LET weighted_return == RoundDiv(7 * signal.recent_mean + 3 * signal.mean_return, 10)
        momentum == Sign(signal.recent_mean) * MOMENTUM
        daily_return == weighted_return + momentum + z * signal.recent_volatility
    IN  RoundDiv(current_price * (ReturnUnit + daily_return), ReturnUnit)

\* a high that is left as drawn
ClampHighOmitted(pred_high, pred_open, pred_close) == pred_high

\* pred_high = max(pred_high, pred_open, pred_close)
ClampHigh(pred_high, pred_open, pred_close) ==
    Max(pred_high, Max(pred_open, pred_close))

\* pred_low = min(pred_low, pred_open, pred_close)
ClampLow(pred_low, pred_open, pred_close) ==
    Min(pred_low, Min(pred_open, pred_close))

\* the candle of one loop pass of generate_predictions, at the price
\* current_price already moved to for the day
PredictedCandle(date, current_price, signal, draw) ==
    LET daily_range == RoundDiv(current_price * signal.recent_volatility * 3,
                                2 * ReturnUnit)
        pred_open == current_price
                        + Uniform(RoundDiv(-daily_range, 4), RoundDiv(daily_range, 4),
                                  draw.u_open)
        pred_high == Max(pred_open, current_price)
                        + Uniform(0, RoundDiv(daily_range, 2), draw.u_high)
        pred_low == Min(pred_open, current_price)
                        - Uniform(0, RoundDiv(daily_range, 2), draw.u_low)
        pred_close == current_price
    IN  [date |-> date,
         open |-> Round2(pred_open),
         high |-> Round2(ClampHigh(pred_high, pred_open, pred_close)),
         low |-> Round2(ClampLow(pred_low, pred_open, pred_close)),
         close |-> Round2(pred_close),
         volume |-> signal.avg_volume]

\* current_price after the first i loop passes
RECURSIVE PriceAfter(_, _, _)
PriceAfter(signal, draws, i) ==
    IF i = 0 THEN signal.last_close
    ELSE NextPrice(PriceAfter(signal, draws, i - 1), signal, draws[i].z)

\* a guard that lets a window of 19 rows through
InsufficientHistoryOffByOne(historical_data) == Len(historical_data) < MIN_HISTORY - 1

\* if len(historical_data) < 20: return None
InsufficientHistory(historical_data) == Len(historical_data) < MIN_HISTORY

\* generate_predictions with the random draws of its loop passes given:
\* [none |-> TRUE] is None
GeneratePredictions(historical_data, prediction_days, draws) ==
    IF InsufficientHistory(historical_data)
    THEN [none |-> TRUE, path |-> << >>]
    ELSE LET signal == TrendSignal(historical_data)
         IN  [none |-> FALSE,
              path |-> [i \in 1..prediction_days |->
                          PredictedCandle(PredDate(signal.last_date, i),
                                          PriceAfter(signal, draws, i),
                                          signal, draws[i])]]

\* `if predictions:` / `if path_predictions:`
Truthy(result) == ~result.none /\ result.path # << >>

\* generate_monte_carlo_paths, draws[k] driving the k-th simulation
GenerateMonteCarloPaths(historical_data, prediction_days, num_simulations, draws) ==
    IF Len(historical_data) < MIN_HISTORY THEN << >>
    ELSE LET runs == [k \in 1..num_simulations |->
                         GeneratePredictions(historical_data, prediction_days, draws[k])]
             kept == SelectSeq(runs, Truthy)
         IN  [k \in DOMAIN kept |-> kept[k].path]

\* a percentile read off the values in the order of the paths, unsorted
PercentileUnsorted(values, q) ==
    LET rank == (Len(values) - 1) * q
        lo == (rank \div 100) + 1
        rest == rank % 100
    IN  IF rest = 0 THEN values[lo]
        ELSE values[lo] + RoundDiv((values[lo + 1] - values[lo]) * rest, 100)

\* a percentile that takes the order statistic under the rank, without
\* interpolation
PercentileLower(values, q) ==
    LET sorted == Sorted([i \in DOMAIN values |-> [v |-> values[i]]], "v", FALSE)
    IN  sorted[(((Len(values) - 1) * q) \div 100) + 1].v

\* np.percentile(values, q): linear interpolation between the order
\* statistics around rank (K - 1) * q / 100
Percentile(values, q) ==
    LET sorted == Sorted([i \in DOMAIN values |-> [v |-> values[i]]], "v", FALSE)
        rank == (Len(values) - 1) * q
        lo == (rank \div 100) + 1
        rest == rank % 100
    IN  IF rest = 0 THEN sorted[lo].v
        ELSE sorted[lo].v + RoundDiv((sorted[lo + 1].v - sorted[lo].v) * rest, 100)

\* np.std(values): the population standard deviation, to a whole cent
PopulationStd(values) ==
    LET m == Mean(values)
    IN  CentUnit * ISqrt(RoundDiv(
            Sum([i \in DOMAIN values |->
                    RoundDiv(values[i] - m, CentUnit) * RoundDiv(values[i] - m, CentUnit)]),
            Len(values)))

\* the values of one metric on one day across the paths
DayValues(paths, day_idx, metric) == [k \in DOMAIN paths |-> paths[k][day_idx][metric]]

DayStats(values) ==
    [p10 |-> Percentile(values, 10), p25 |-> Percentile(values, 25),
     p50 |-> Percentile(values, 50), p75 |-> Percentile(values, 75),
     p90 |-> Percentile(values, 90), mean |-> Mean(values),
     std |-> PopulationStd(values)]

\* calculate_percentiles: a dict keyed by the date of each day of the first
\* path; a later day with the same date replaces the earlier entry
CalculatePercentiles(paths) ==
    IF paths = << >> THEN << >>
    ELSE LET days == DOMAIN paths[1]
             dates == {paths[1][d].date : d \in days}
             LastDay(date) == CHOOSE d \in days :
                 /\ paths[1][d].date = date
                 /\ \A e \in days : paths[1][e].date = date => e <= d
         IN  [date \in dates |->
                [metric \in {"open", "high", "low", "close"} |->
                    DayStats(DayValues(paths, LastDay(date), metric))]]

\* a headline forecast that is the base path whatever the ensemble
HeadlineFromBasePath(base_path, paths) == base_path

\* a mean path whose fallback keeps only the first day of the base path
FallbackFirstDayOnly(base_path, paths) ==
    IF paths # << >>
    THEN [d \in DOMAIN paths[1] |->
            [date |-> paths[1][d].date,
             open |-> Mean(DayValues(paths, d, "open")),
             high |-> Mean(DayValues(paths, d, "high")),
             low |-> Mean(DayValues(paths, d, "low")),
             close |-> Mean(DayValues(paths, d, "close")),
             volume |-> Mean(DayValues(paths, d, "volume"))]]
    ELSE SubSeq(base_path, 1, 1)

\* the mean path of create_prediction_json, or the base path when there
\* is no ensemble
MeanPredictions(base_path, paths) ==
    IF paths # << >>
    THEN [d \in DOMAIN paths[1] |->
            [date |-> paths[1][d].date,
             open |-> Mean(DayValues(paths, d, "open")),
             high |-> Mean(DayValues(paths, d, "high")),
             low |-> Mean(DayValues(paths, d, "low")),
             close |-> Mean(DayValues(paths, d, "close")),
             volume |-> Mean(DayValues(paths, d, "volume"))]]
    ELSE base_path

MONTE_CARLO_RUNS == 10

\* returns.std() * np.sqrt(252) * 100, in hundredths of a percent
AnnualizedVolatility(historical_data) ==
    RoundDiv(Std(Returns(Closes(historical_data))) * 15875, 1000)

\* a score of 85 with three times the jitter and no clamp
OverallScoreUnclamped(jitter) == 85 + 3 * jitter

\* min(95, max(70, 85 + np.random.randint(-5, 10)))
OverallScore(jitter) == Min(95, Max(70, 85 + jitter))

\* create_prediction_json; base_path is its `predictions`, jitter the draw
\* of np.random.randint(-5, 10), now the reading of datetime.now()
CreatePredictionJson(ticker, historical_data, base_path, paths, jitter, now) ==
    LET mean_predictions == MeanPredictions(base_path, paths)
        volatility == AnnualizedVolatility(historical_data)
    IN  [ticker_info |->
            [symbol |-> ticker, generated_at |-> now,
             model_type |-> "kronos-120d-5d-montecarlo",
             monte_carlo_runs |-> MONTE_CARLO_RUNS,
             data_completeness |-> "full_120_day_history_with_monte_carlo",
             chart_compatibility |-> "candlestick_ready"],
         data |->
            [ticker |-> ticker,
             metadata |->
                [lookback_start |-> historical_data[1].date,
                 lookback_end |-> Last(historical_data).date,
                 lookback_days |-> Len(historical_data),
                 prediction_start |-> mean_predictions[1].date,
                 prediction_end |-> Last(mean_predictions).date,
                 prediction_days |-> Len(mean_predictions),
                 monte_carlo_runs |-> MONTE_CARLO_RUNS,
                 data_completeness |-> "full_ohlcv_with_monte_carlo"]],
         chart_data |->
            [historical_candlesticks |-> historical_data,
             predicted_candlesticks |-> mean_predictions,
             monte_carlo_paths |-> paths,
             prediction_percentiles |-> CalculatePercentiles(paths),
             actual_candlesticks |-> << >>],
         summary_stats |->
            [overall_score |-> OverallScore(jitter),
             prediction_quality |->
                IF volatility < 40 * PctUnit THEN "GOOD" ELSE "MODERATE",
             volatility |-> volatility,
             monte_carlo_runs |-> MONTE_CARLO_RUNS]]

\* get_lookback_data: the rows up to end_date, the last lookback_days of them
GetLookbackData(rows, end_date, lookback_days) ==
    LastK(SelectSeq(rows, LAMBDA row : row.date <= end_date), lookback_days)

(***************************************************************************)
(* SpecTicker: one ticker through the forecast functions                   *)
(***************************************************************************)

\* horizon of the simulated paths (prediction_days, 5 in process_ticker)
MaxDays == 2
\* simulations of one ensemble (num_simulations, 10 in process_ticker)
MaxRuns == 2
\* rows of the longest parquet file
MaxRows == 21

HorizonDays == Min(PREDICTION_DAYS, MaxDays)
SimulationRuns == Min(MONTE_CARLO_RUNS, MaxRuns)

\* the random draws of one loop pass: z for np.random.normal, then the
\* three np.random.uniform draws in quarters.  Shock is three standard
\* deviations down, which takes the price of a volatile stock below zero.
Quiet == [z |-> 1, u_open |-> 1, u_high |-> 2, u_low |-> 1]
Shock == [z |-> -3, u_open |-> 3, u_high |-> 3, u_low |-> 0]
Draws == {Quiet, Shock}

\* the draws of the loop passes of one path: one draw on the odd passes and
\* one on the even passes
PathDraws(days) ==
    {[i \in 1..days |-> IF i % 2 = 1 THEN odd ELSE even] : odd, even \in Draws}

\* the draws np.random.randint(-5, 10) can give, its two extremes
Jitters == {-5, 9}

\* every draw np.random.randint(-5, 10) can give
AllJitters == (0 - 5)..9

\* the trading day before d
RECURSIVE PrevTradingDay(_)
PrevTradingDay(d) == IF Weekday(d - 1) >= 5 THEN PrevTradingDay(d - 1) ELSE d - 1

\* percent by which the close moves into row i of a history
StepPercent(pattern, i) ==
    CASE pattern = "flat" -> 0
      [] pattern = "rising" -> 1
      [] pattern = "swinging" -> IF i % 2 = 0 THEN 2 ELSE -1
      [] pattern = "volatile" -> IF i % 2 = 0 THEN 50 ELSE -33

Patterns == {"flat", "rising", "swinging", "volatile"}

\* the first close of a history: 5 dollars for the steady patterns, 1
\* dollar for the ones whose simulated price moves by half in a day
StartPrice(pattern) ==
    IF pattern \in {"flat", "rising"} THEN 500 * CentUnit ELSE 100 * CentUnit

\* a parquet file of n rows ending on last_date
Rows(n, pattern, last_date) ==
    LET close[i \in 1..n] ==
            IF i = 1 THEN StartPrice(pattern)
            ELSE RoundDiv(close[i - 1] * (100 + StepPercent(pattern, i)), 100)
        date[i \in 1..n] ==
            IF i = n THEN last_date ELSE PrevTradingDay(date[i + 1])
    IN  [i \in 1..n |->
            LET open == IF i = 1 THEN close[1] ELSE close[i - 1]
            IN  [date |-> date[i],
                 open |-> open,
                 high |-> Max(open, close[i]) + CentUnit,
                 low |-> Min(open, close[i]) - CentUnit,
                 close |-> close[i],
                 volume |-> 1000 + 100 * (i % 3)]]

\* the rows with the high of the last one recorded under its close
BadLastCandle(rows) ==
    [rows EXCEPT ![Len(rows)].high = rows[Len(rows)].close - CentUnit]

\* what load_parquet_data can return: None, or the rows of a file that
\* ends on LOOKBACK_END or on the Monday after it, or the rows of a file
\* whose last candle is inconsistent
ParquetFiles ==
    {[found |-> FALSE, rows |-> << >>]} \cup
    {[found |-> TRUE, rows |-> Rows(n, pattern, last_date)] :
        n \in {MIN_HISTORY - 1, MIN_HISTORY, MaxRows},
        pattern \in Patterns,
        last_date \in {LOOKBACK_END, LOOKBACK_END + 3}} \cup
    {[found |-> TRUE, rows |-> BadLastCandle(Rows(MaxRows, pattern, LOOKBACK_END))] :
        pattern \in Patterns}

InitTicker ==
    /\ BatchIdle
    /\ arg = [none |-> TRUE]
    /\ ret = Unset
    /\ candlestick_data = << >>
    /\ market_overview = [total_tickers |-> 0]
    /\ clock = 0
    /\ files = << >>
    /\ processed_files = {}
    /\ overview_file = << >>
    /\ saves = 0
    /\ fs_ops = 0
    /\ cycles = 0
    /\ watch_calls = << >>
    /\ parquet \in ParquetFiles
    /\ pc = "idle"
    /\ predictions = [none |-> TRUE, path |-> << >>]
    /\ monte_carlo_paths = << >>
    /\ prediction_json = << >>
    /\ data_file = << >>
    /\ success = FALSE

\* the lookback window of the loaded file
Historical == GetLookbackData(parquet.rows, LOOKBACK_END, LOOKBACK_DAYS)

\* a call of generate_predictions on the lookback window
CallGeneratePredictions ==
    /\ pc = "idle"
    /\ parquet.found
    /\ \E draws \in PathDraws(HorizonDays) :
          predictions' = GeneratePredictions(Historical, HorizonDays, draws)
    /\ pc' = "generate_predictions"
    /\ UNCHANGED <<workflow_vars, batch_vars, arg, ret, processor_vars, parquet, monte_carlo_paths,
                   prediction_json, data_file, success>>

\* a call of generate_monte_carlo_paths on the lookback window
CallGenerateMonteCarloPaths ==
    /\ pc = "idle"
    /\ parquet.found
    /\ \E draws \in [1..SimulationRuns -> PathDraws(HorizonDays)] :
          monte_carlo_paths' =
              GenerateMonteCarloPaths(Historical, HorizonDays, SimulationRuns, draws)
    /\ pc' = "generate_monte_carlo_paths"
    /\ UNCHANGED <<workflow_vars, batch_vars, arg, ret, processor_vars, parquet, predictions,
                   prediction_json, data_file, success>>

\* process_ticker returns False and writes nothing
TickerFails ==
    /\ success' = FALSE
    /\ UNCHANGED <<clock, predictions, monte_carlo_paths, prediction_json, data_file>>

\* process_ticker, from load_parquet_data to json.dump
ProcessTicker ==
    /\ pc = "idle"
    /\ pc' = "process_ticker"
    /\ IF ~parquet.found \/ Len(Historical) < MIN_HISTORY
       THEN TickerFails
       ELSE \E base \in PathDraws(HorizonDays),
               draws \in [1..SimulationRuns -> PathDraws(HorizonDays)],
               jitter \in Jitters :
              LET result == GeneratePredictions(Historical, HorizonDays, base)
                  paths == GenerateMonteCarloPaths(Historical, HorizonDays,
                                                   SimulationRuns, draws)
              IN  IF ~Truthy(result)
                  THEN TickerFails
                  ELSE /\ predictions' = result
                       /\ monte_carlo_paths' = paths
                       /\ clock' = clock + 1
                       /\ prediction_json' =
                             <<CreatePredictionJson(1, Historical, result.path,
                                                    paths, jitter, clock')>>
                       /\ data_file' = prediction_json'
                       /\ success' = TRUE
    /\ UNCHANGED <<workflow_vars, batch_vars, arg, ret, candlestick_data, market_overview, files,
                   processed_files, watch_calls, overview_file, saves, fs_ops, cycles, parquet>>

\* a second call of generate_predictions on the same window, by a run of
\* its own: np.random is seeded nowhere, so the draws are whatever the
\* generator gives
CallGeneratePredictionsAgain ==
    /\ pc = "generate_predictions"
    /\ ~ret.done
    /\ \E draws \in PathDraws(HorizonDays) :
          ret' = [done |-> TRUE,
                  predictions |-> GeneratePredictions(Historical, HorizonDays, draws)]
    /\ UNCHANGED <<workflow_vars, batch_vars, arg, processor_vars, ticker_vars>>

\* a call of create_prediction_json with the base path and no ensemble
CallCreatePredictionJson ==
    /\ pc = "generate_predictions"
    /\ ~ret.done
    /\ Truthy(predictions)
    /\ clock' = clock + 1
    /\ \E jitter \in AllJitters :
          prediction_json' =
              <<CreatePredictionJson(1, Historical, predictions.path,
                                     monte_carlo_paths, jitter, clock')>>
    /\ pc' = "create_prediction_json"
    /\ UNCHANGED <<workflow_vars, batch_vars, arg, ret, candlestick_data, market_overview, files,
                   processed_files, watch_calls, overview_file, saves, fs_ops, cycles,
                   parquet, predictions, monte_carlo_paths, data_file, success>>

NextTicker ==
    \/ CallGeneratePredictions
    \/ CallGenerateMonteCarloPaths
    \/ ProcessTicker
    \/ CallGeneratePredictionsAgain
    \/ CallCreatePredictionJson

SpecTicker == InitTicker /\ [][NextTicker]_vars

\* every candle of every path
Candles(paths) == UNION {Range(paths[k]) : k \in DOMAIN paths}

OHLC(candle) ==
    /\ candle.low <= candle.open /\ candle.open <= candle.high
    /\ candle.low <= candle.close /\ candle.close <= candle.high

\* the mean path of the record process_ticker built
MeanPath == IF prediction_json = << >> THEN << >>
            ELSE prediction_json[1].chart_data.predicted_candlesticks

\* C1: every candle of the path generate_predictions returned, of every
\* Monte Carlo path and of the mean path of create_prediction_json has
\* low <= open <= high and low <= close <= high, whatever the window of
\* 20 rows or more and whatever the random draws.
C1_OhlcInvariant ==
    /\ \A candle \in Range(predictions.path) : OHLC(candle)
    /\ \A candle \in Candles(monte_carlo_paths) : OHLC(candle)
    /\ \A candle \in Range(MeanPath) : OHLC(candle)

\* process_ticker wrote a record whose base path holds a candle of negative
\* price, where the drawn high lies under the open before the clamp
C1_Witness ==
    /\ pc = "process_ticker"
    /\ success
    /\ Len(monte_carlo_paths) = SimulationRuns
    /\ Len(MeanPath) = HorizonDays
    /\ \E candle \in Range(predictions.path) :
          candle.close < 0 /\ candle.high = candle.open
    /\ \E candle \in Candles(monte_carlo_paths) : candle.low < candle.close

\* C10: a window of fewer than 20 rows yields no forecast:
\* generate_predictions returns None, generate_monte_carlo_paths returns
\* an empty list, and process_ticker returns False and writes no file.
C10_ShortWindowNoForecast ==
    (parquet.found /\ Len(Historical) < MIN_HISTORY) =>
        /\ pc = "generate_predictions" => predictions.none
        /\ pc = "generate_monte_carlo_paths" => monte_carlo_paths = << >>
        /\ pc = "process_ticker" =>
              /\ ~success
              /\ data_file = << >>
              /\ prediction_json = << >>

\* process_ticker returned on a file whose lookback window has 19 rows
C10_Witness ==
    /\ parquet.found
    /\ Len(Historical) = MIN_HISTORY - 1
    /\ pc = "process_ticker"
    /\ ~success
    /\ data_file = << >>

\* C11: a lookback window holding a candle that breaks low <= open <= high
\* or low <= close <= high makes process_ticker fail without writing, and
\* no written record holds such a historical candlestick.
C11_InvalidWindowRejected ==
    /\ (pc = "process_ticker" /\ \E candle \in Range(Historical) : ~OHLC(candle)) =>
          ~success /\ data_file = << >>
    /\ data_file # << >> =>
          \A candle \in Range(data_file[1].chart_data.historical_candlesticks) :
              OHLC(candle)

(***************************************************************************)
(* SpecPercentiles: calculate_percentiles applied to one ensemble          *)
(***************************************************************************)

\* paths of an enumerated ensemble
MaxEnsemble == 4

\* closes a simulated day can have, in hundredths of a cent
PriceLevels == {9925, 10000, 10150}

\* the day-1 closes 100, 101, ..., 109 dollars of ten paths, not in order
TenCloses == [k \in 1..MONTE_CARLO_RUNS |-> (100 + ((3 * k) % 10)) * 100 * CentUnit]

\* a one-day path closing at v
OneDayPath(v) ==
    <<[date |-> LOOKBACK_END + 3, open |-> v - 25, high |-> v + CentUnit,
       low |-> v - CentUnit, close |-> v, volume |-> 1000]>>

Ensembles ==
    {[k \in DOMAIN closes |-> OneDayPath(closes[k])] :
        closes \in {TenCloses} \cup UNION {[1..n -> PriceLevels] : n \in 1..MaxEnsemble}}

InitPercentiles ==
    /\ arg \in [monte_carlo_paths : Ensembles]
    /\ ret = Unset
    /\ ProcessorIdle

CallCalculatePercentiles ==
    /\ ~ret.done
    /\ ret' = [done |-> TRUE, percentiles |-> CalculatePercentiles(arg.monte_carlo_paths)]
    /\ UNCHANGED <<workflow_vars, batch_vars, arg, processor_vars, ticker_vars>>

NextPercentiles == CallCalculatePercentiles

SpecPercentiles == InitPercentiles /\ [][NextPercentiles]_vars

Metrics == {"open", "high", "low", "close"}

\* C12: for every day and every OHLC field of a non-empty ensemble the
\* statistics of calculate_percentiles satisfy p10 <= p25 <= p50 <= p75 <= p90.
C12_PercentilesOrdered ==
    ret.done =>
        \A date \in DOMAIN ret.percentiles : \A metric \in Metrics :
            LET stats == ret.percentiles[date][metric]
            IN  /\ stats.p10 <= stats.p25
                /\ stats.p25 <= stats.p50
                /\ stats.p50 <= stats.p75
                /\ stats.p75 <= stats.p90

\* the statistics of an ensemble of four paths with distinct closes given
\* out of order
C12_Witness ==
    /\ ret.done
    /\ Len(arg.monte_carlo_paths) = MaxEnsemble
    /\ arg.monte_carlo_paths[1][1].close > arg.monte_carlo_paths[2][1].close
    /\ \E date \in DOMAIN ret.percentiles :
          ret.percentiles[date]["close"].p10 < ret.percentiles[date]["close"].p90

\* the j-th smallest of the values
OrderStatistic(values, j) ==
    CHOOSE v \in Range(values) :
        /\ Cardinality({i \in DOMAIN values : values[i] < v}) < j
        /\ j <= Cardinality({i \in DOMAIN values : values[i] <= v})

\* the value at fractional rank (K - 1) * q / 100 of the sorted values
Interpolated(values, q) ==
    LET rank == (Len(values) - 1) * q
        below == OrderStatistic(values, (rank \div 100) + 1)
    IN  IF rank % 100 = 0 THEN below
        ELSE below + RoundDiv((OrderStatistic(values, (rank \div 100) + 2) - below)
                                  * (rank % 100), 100)

\* C20: each percentile is the linear interpolation between the order
\* statistics around rank (K - 1) * q / 100; the ten closes 100 .. 109 give
\* p50 = 104.5 and mean = 104.5.
C20_LinearInterpolation ==
    ret.done =>
        /\ \A date \in DOMAIN ret.percentiles : \A metric \in Metrics :
              LET stats == ret.percentiles[date][metric]
                  values == DayValues(arg.monte_carlo_paths, 1, metric)
              IN  /\ stats.p10 = Interpolated(values, 10)
                  /\ stats.p25 = Interpolated(values, 25)
                  /\ stats.p50 = Interpolated(values, 50)
                  /\ stats.p75 = Interpolated(values, 75)
                  /\ stats.p90 = Interpolated(values, 90)
        /\ DayValues(arg.monte_carlo_paths, 1, "close") = TenCloses =>
              \A date \in DOMAIN ret.percentiles :
                  /\ ret.percentiles[date]["close"].p50 = 10450 * CentUnit
                  /\ ret.percentiles[date]["close"].mean = 10450 * CentUnit

\* the statistics of the ten closes 100 .. 109
C20_Witness ==
    /\ ret.done
    /\ DayValues(arg.monte_carlo_paths, 1, "close") = TenCloses
    /\ DOMAIN ret.percentiles # {}

\* the record create_prediction_json returned
Record == prediction_json[1]

Fields == {"open", "high", "low", "close", "volume"}

\* m is the arithmetic mean of the values, to the nearest unit
IsMean(m, values) ==
    LET k == Len(values)
        d == k * m - Sum(values)
    IN  2 * d <= k /\ 2 * d >= 0 - k

\* C13: with a non-empty ensemble the headline forecast has, at every day
\* and every field of open, high, low, close and volume, the arithmetic
\* mean of the ensemble's values there; it is computed from the ensemble,
\* not taken from the base path or any one path.
C13_HeadlineIsEnsembleMean ==
    (prediction_json # << >> /\ Record.chart_data.monte_carlo_paths # << >>) =>
        LET paths == Record.chart_data.monte_carlo_paths
            headline == Record.chart_data.predicted_candlesticks
        IN  /\ DOMAIN headline = DOMAIN paths[1]
            /\ \A d \in DOMAIN headline :
                  /\ headline[d].date = paths[1][d].date
                  /\ \A f \in Fields : IsMean(headline[d][f], DayValues(paths, d, f))

\* process_ticker wrote a record whose headline forecast is neither the
\* base path nor one of the simulated paths
C13_Witness ==
    /\ pc = "process_ticker"
    /\ success
    /\ Len(Record.chart_data.monte_carlo_paths) = SimulationRuns
    /\ Record.chart_data.predicted_candlesticks # predictions.path
    /\ \A k \in DOMAIN monte_carlo_paths :
          Record.chart_data.predicted_candlesticks # monte_carlo_paths[k]

\* last_close grown by 1% a day for i days
RECURSIVE Grown(_, _)
Grown(last_close, i) ==
    IF i = 0 THEN last_close ELSE RoundDiv(Grown(last_close, i - 1) * 101, 100)

\* twenty closes, each 1% over the one before, with no spread of the returns
RisingWindow(historical_data) ==
    /\ Len(historical_data) = MIN_HISTORY
    /\ \A t \in 1..(MIN_HISTORY - 1) :
          historical_data[t + 1].close = RoundDiv(historical_data[t].close * 101, 100)
    /\ TrendSignal(historical_data).recent_volatility = 0

\* C14: on twenty closes rising 1% a day, where the noise has zero standard
\* deviation, generate_predictions gives day i the close last_close x
\* 1.01^i, with open, high and low equal to it.
C14_NoiseFreeDrift ==
    (pc = "generate_predictions" /\ RisingWindow(Historical)) =>
        \A i \in DOMAIN predictions.path :
            LET candle == predictions.path[i]
            IN  /\ candle.close = Round2(Grown(Last(Historical).close, i))
                /\ candle.open = candle.close
                /\ candle.high = candle.close
                /\ candle.low = candle.close

\* C15: two runs of generate_predictions on the same window give the same
\* path.
C15_Determinism ==
    (pc = "generate_predictions" /\ ret.done) => ret.predictions = predictions

\* C16: every record of create_prediction_json has the fields of the
\* persisted schema: ticker_info with symbol, generated_at, model_type,
\* monte_carlo_runs, lookback_days, prediction_days; chart_data with its
\* five lists; summary_stats with overall_score, prediction_quality,
\* volatility, monte_carlo_runs, last_close, predicted_close, price_change,
\* price_change_percent and a direction of Bullish, Bearish or Neutral.
C16_RecordSchema ==
    prediction_json # << >> =>
        /\ {"symbol", "generated_at", "model_type", "monte_carlo_runs",
            "lookback_days", "prediction_days"} \subseteq DOMAIN Record.ticker_info
        /\ {"historical_candlesticks", "predicted_candlesticks", "monte_carlo_paths",
            "prediction_percentiles", "actual_candlesticks"}
               \subseteq DOMAIN Record.chart_data
        /\ {"overall_score", "prediction_quality", "volatility", "monte_carlo_runs",
            "last_close", "predicted_close", "price_change", "price_change_percent",
            "direction"} \subseteq DOMAIN Record.summary_stats
        /\ Record.summary_stats.direction \in {"Bullish", "Bearish", "Neutral"}

\* C18: with an empty ensemble create_prediction_json takes the base path
\* as headline forecast and leaves percentiles and paths empty; no record
\* process_ticker wrote has an empty headline forecast.
C18_EmptyEnsembleFallback ==
    /\ (prediction_json # << >> /\ monte_carlo_paths = << >>) =>
          /\ Record.chart_data.predicted_candlesticks = predictions.path
          /\ Record.chart_data.prediction_percentiles = << >>
          /\ Record.chart_data.monte_carlo_paths = << >>
    /\ data_file # << >> => data_file[1].chart_data.predicted_candlesticks # << >>

\* create_prediction_json was called with a base path of the full horizon
\* and no ensemble
C18_Witness ==
    /\ pc = "create_prediction_json"
    /\ monte_carlo_paths = << >>
    /\ Len(predictions.path) = HorizonDays
    /\ Record.chart_data.predicted_candlesticks = predictions.path

\* C19: the overall_score of every record lies in 70 .. 95, whatever the
\* jitter.
C19_ScoreInRange ==
    prediction_json # << >> =>
        /\ Record.summary_stats.overall_score >= 70
        /\ Record.summary_stats.overall_score <= 95

\* a record scored with the lowest jitter
C19_Witness ==
    /\ pc = "create_prediction_json"
    /\ Record.summary_stats.overall_score = 80

(***************************************************************************)
(* SpecBatch: the batch loop of update_predictions_1003.main               *)
(***************************************************************************)

\* most tickers in a batch
MaxBatch == 3

\* what a ticker can find: no parquet file; a file with too short a
\* window; a full file; a full file without a close column; a full file
\* whose prediction file cannot be opened for writing
TickerFiles ==
    {[found |-> FALSE, rows |-> 0, has_close |-> TRUE, writable |-> TRUE],
     [found |-> TRUE, rows |-> MIN_HISTORY - 1, has_close |-> TRUE, writable |-> TRUE],
     [found |-> TRUE, rows |-> LOOKBACK_DAYS, has_close |-> TRUE, writable |-> TRUE],
     [found |-> TRUE, rows |-> LOOKBACK_DAYS, has_close |-> FALSE, writable |-> TRUE],
     [found |-> TRUE, rows |-> LOOKBACK_DAYS, has_close |-> TRUE, writable |-> FALSE]}

\* how process_ticker ends on a ticker: it returns "True" or "False", or an
\* exception leaves it ("raise"): the KeyError of historical_data['close']
\* in generate_predictions, or the OSError of open(output_path, 'w')
ProcessTickerResult(file) ==
    IF ~file.found THEN "False"
    ELSE IF file.rows < MIN_HISTORY THEN "False"
    ELSE IF ~file.has_close THEN "raise"
    ELSE IF ~file.writable THEN "raise"
    ELSE "True"

\* main after it listed and sorted the tickers
InitBatch ==
    /\ arg = [none |-> TRUE]
    /\ ret = Unset
    /\ candlestick_data = << >>
    /\ market_overview = [total_tickers |-> 0]
    /\ clock = 0
    /\ files = << >>
    /\ processed_files = {}
    /\ overview_file = << >>
    /\ saves = 0
    /\ fs_ops = 0
    /\ cycles = 0
    /\ watch_calls = << >>
    /\ parquet = [found |-> FALSE, rows |-> << >>]
    /\ pc = "idle"
    /\ predictions = [none |-> TRUE, path |-> << >>]
    /\ monte_carlo_paths = << >>
    /\ prediction_json = << >>
    /\ data_file = << >>
    /\ success = FALSE
    /\ \E n \in 0..MaxBatch :
          /\ tickers = [i \in 1..n |-> i]
          /\ ticker_files \in [1..n -> TickerFiles]
    /\ attempted = 0
    /\ success_count = 0
    /\ failed_tickers = << >>
    /\ saved = {}
    /\ main_pc = "loop"
    /\ WorkflowIdle

\* one pass of `for ticker in sorted(tickers)`
MainLoop ==
    /\ main_pc = "loop"
    /\ attempted < Len(tickers)
    /\ attempted' = attempted + 1
    /\ LET ticker == tickers[attempted + 1]
           result == ProcessTickerResult(ticker_files[ticker])
       IN  CASE result = "True" ->
                   /\ success_count' = success_count + 1
                   /\ saved' = saved \cup {ticker}
                   /\ UNCHANGED <<failed_tickers, main_pc>>
             [] result = "False" ->
                   /\ failed_tickers' = Append(failed_tickers, ticker)
                   /\ UNCHANGED <<success_count, saved, main_pc>>
             [] result = "raise" ->
                   /\ main_pc' = "raised"
                   /\ UNCHANGED <<success_count, failed_tickers, saved>>
    /\ UNCHANGED <<workflow_vars, arg, ret, processor_vars, ticker_vars, ticker_files, tickers>>

\* the loop is over: main prints the counts and returns
MainReturn ==
    /\ main_pc = "loop"
    /\ attempted = Len(tickers)
    /\ main_pc' = "returned"
    /\ UNCHANGED <<workflow_vars, arg, ret, processor_vars, ticker_vars, ticker_files, tickers,
                   attempted, success_count, failed_tickers, saved>>

NextBatch == MainLoop \/ MainReturn

SpecBatch == InitBatch /\ [][NextBatch]_vars

\* C17: no ticker's failure ends the batch: main never leaves by an
\* exception, and when it returns every ticker was attempted and is either
\* counted in success_count or listed in failed_tickers.
C17_BatchIsolation ==
    /\ main_pc # "raised"
    /\ main_pc = "returned" =>
          /\ attempted = Len(tickers)
          /\ success_count + Len(failed_tickers) = Len(tickers)


\* every prediction file in the folder was already attempted
NothingNew == \A p \in Paths : files[p] # Absent => p \in processed_files

Fresh(r) == r.data_type = "ohlcv_complete" /\ r.actual_candlesticks = << >>

\* C28: a record processed from an OHLCV file with an empty
\* actual_candlesticks list, as create_prediction_json writes it, has
\* price_change_percent 0 and volatility 0 and so is neutral whatever move
\* the file forecasts; an overview computed from such records alone counts
\* no bullish and no bearish ticker.
C28_FreshRecordsAreNeutral ==
    /\ \A i \in DOMAIN candlestick_data :
          Fresh(candlestick_data[i]) =>
              /\ candlestick_data[i].price_change_percent = 0
              /\ candlestick_data[i].volatility = 0
              /\ TrendOverview(candlestick_data[i].price_change_percent) = "neutral"
    /\ (candlestick_data # << >> /\ \A i \in DOMAIN candlestick_data :
                                       Fresh(candlestick_data[i])) =>
          /\ market_overview.bullish_count = 0
          /\ market_overview.bearish_count = 0
          /\ market_overview.neutral_count = Len(candlestick_data)

\* a saved overview over two fresh records
C28_Witness ==
    /\ saves > 0
    /\ Len(candlestick_data) = 2
    /\ \A i \in DOMAIN candlestick_data :
          /\ Fresh(candlestick_data[i])
          /\ candlestick_data[i].historical_candlesticks = HistoricalCandles
    /\ market_overview.neutral_count = 2
    /\ overview_file = <<market_overview>>

\* C23: for a non-empty ensemble the percentile table of the record has
\* exactly one key per forecast day, so no day's statistics are
\* overwritten by those of another day.
C23_OneKeyPerForecastDay ==
    (prediction_json # << >> /\ Record.chart_data.monte_carlo_paths # << >>) =>
        Cardinality(DOMAIN Record.chart_data.prediction_percentiles)
            = Len(Record.chart_data.monte_carlo_paths[1])

(***************************************************************************)
(* SpecWorkflow: src/kronos_workflow.py, main and run_workflow             *)
(***************************************************************************)

\* the command lines, --config files and environments tried: the flags
\* --no-deploy, --force and --dry-run, the config file's skip_deployment
\* and use_wrangler keys, and whether CLOUDFLARE_API_TOKEN is set
CommandLines ==
    [no_deploy : BOOLEAN, force : BOOLEAN, dry_run : BOOLEAN,
     file_skip_deployment : BOOLEAN, file_use_wrangler : BOOLEAN,
     api_token : BOOLEAN]

\* main: the config dict it builds from the file and the flags;
\* args.force is parsed and never read
MainConfig(a) ==
    [skip_deployment |-> a.file_skip_deployment \/ a.no_deploy,
     use_wrangler    |-> a.file_use_wrangler]

\* setup_components: the deployment manager it constructs
SetupComponents(cfg, api_token) ==
    IF cfg.use_wrangler THEN "WranglerManager"
    ELSE IF api_token THEN "DeploymentManager"
    ELSE "None"

\* run_workflow: results as it is initialised
NewResults ==
    [success |-> FALSE, predictions_count |-> 0, csv_file |-> "None",
     deployment_url |-> "None", errors |-> << >>, message |-> "None"]

\* a component call and what came of it
Call(name, outcome) == [name |-> name, outcome |-> outcome]

\* except Exception as e: results['errors'].append(str(e))
Caught(res, name) == [res EXCEPT !.errors = Append(@, "exception in " \o name)]

\* a deploy step whose failure fails the run
FinishIfDeployed(res, deployment_success) ==
    [res EXCEPT !.success = deployment_success,
                !.deployment_url = IF deployment_success THEN "kronos-hoad" ELSE @]

\* step 8 after the call, and results['success'] = True
Finish(res, deployment_success) ==
    [res EXCEPT !.success = TRUE,
                !.deployment_url = IF deployment_success THEN "kronos-hoad" ELSE @]

\* files update_predictions can write, of which some may fail
MaxUpdated == 2

\* what the workflow leaves alone
other_vars == <<arg, ret, processor_vars, ticker_vars, batch_vars,
                pool_vars, validator_vars>>

\* main after KronosWorkflow(config) was constructed
InitWorkflow ==
    /\ arg = [none |-> TRUE]
    /\ ret = Unset
    /\ ScriptsIdle
    /\ PoolIdle
    /\ ValidatorIdle
    /\ args \in CommandLines
    /\ config = MainConfig(args)
    /\ deployment_manager = SetupComponents(config, args.api_token)
    /\ wf_pc = "main"
    /\ steps = << >>
    /\ results = << >>

\* main with --dry-run: check_for_new_data and load_tickers, outside any try
DryRun ==
    /\ wf_pc = "main"
    /\ args.dry_run
    /\ \/ /\ steps' = <<Call("check_for_new_data", "raise")>>
          /\ wf_pc' = "raised"
       \/ /\ \E o \in {"ok", "empty"} :
                steps' = <<Call("check_for_new_data", o), Call("load_tickers", "raise")>>
          /\ wf_pc' = "raised"
       \/ /\ \E o1, o2 \in {"ok", "empty"} :
                steps' = <<Call("check_for_new_data", o1), Call("load_tickers", o2)>>
          /\ wf_pc' = "exit 0"
    /\ UNCHANGED <<other_vars, args, config, deployment_manager, results>>

\* main calls run_workflow, which initialises results
StartWorkflow ==
    /\ wf_pc = "main"
    /\ ~args.dry_run
    /\ results' = NewResults
    /\ wf_pc' = "check_for_new_data"
    /\ UNCHANGED <<other_vars, args, config, deployment_manager, steps>>

\* a step that returns early on an empty value: what follows the call
\* with the outcome o, where said is the error it appends on empty and
\* note the message it leaves
Guarded(name, o, said, note, next) ==
    /\ steps' = Append(steps, Call(name, o))
    /\ CASE o = "raise" ->
              /\ results' = Caught(results, name)
              /\ wf_pc' = "returned"
         [] o = "empty" ->
              /\ results' = [results EXCEPT
                    !.errors = IF said = "" THEN @ ELSE Append(@, said),
                    !.message = IF note = "" THEN @ ELSE note]
              /\ wf_pc' = "returned"
         [] o = "ok" ->
              /\ results' = results
              /\ wf_pc' = next

\* step 1
CheckForNewData ==
    /\ wf_pc = "check_for_new_data"
    /\ \E o \in {"ok", "empty", "raise"} :
          Guarded("check_for_new_data", o, "", "No new Friday data available",
                  "load_tickers")
    /\ UNCHANGED <<other_vars, args, config, deployment_manager>>

\* step 2
LoadTickers ==
    /\ wf_pc = "load_tickers"
    /\ \E o \in {"ok", "empty", "raise"} :
          Guarded("load_tickers", o, "", "No tickers found", "prepare_batch_data")
    /\ UNCHANGED <<other_vars, args, config, deployment_manager>>

\* step 3
PrepareBatchData ==
    /\ wf_pc = "prepare_batch_data"
    /\ \E o \in {"ok", "empty", "raise"} :
          Guarded("prepare_batch_data", o, "Data preparation failed", "",
                  "run_predictions")
    /\ UNCHANGED <<other_vars, args, config, deployment_manager>>

\* step 4
RunPredictions ==
    /\ wf_pc = "run_predictions"
    /\ \E o \in {"ok", "empty", "raise"} :
          Guarded("run_predictions", o, "Prediction generation failed", "",
                  "update_predictions")
    /\ UNCHANGED <<other_vars, args, config, deployment_manager>>

\* step 5: some of the files may fail to update, which is only logged
UpdatePredictions ==
    /\ wf_pc = "update_predictions"
    /\ \/ /\ steps' = Append(steps, Call("update_predictions", "raise"))
          /\ results' = Caught(results, "update_predictions")
          /\ wf_pc' = "returned"
       \/ /\ steps' = Append(steps, Call("update_predictions", "ok"))
          /\ \E updated \in 0..MaxUpdated :
                results' = [results EXCEPT !.predictions_count = updated]
          /\ wf_pc' = "update_statistics"
    /\ UNCHANGED <<other_vars, args, config, deployment_manager>>

\* step 6
UpdateStatistics ==
    /\ wf_pc = "update_statistics"
    /\ \/ /\ steps' = Append(steps, Call("update_statistics", "raise"))
          /\ results' = Caught(results, "update_statistics")
          /\ wf_pc' = "returned"
       \/ /\ steps' = Append(steps, Call("update_statistics", "ok"))
          /\ results' = results
          /\ wf_pc' = "export_csv"
    /\ UNCHANGED <<other_vars, args, config, deployment_manager>>

\* step 7, after which the deployment manager decides about step 8
ExportCsv ==
    /\ wf_pc = "export_csv"
    /\ \/ /\ steps' = Append(steps, Call("export_csv", "raise"))
          /\ results' = Caught(results, "export_csv")
          /\ wf_pc' = "returned"
       \/ /\ steps' = Append(steps, Call("export_csv", "ok"))
          /\ results' = [results EXCEPT !.csv_file = "predictions_summary.csv"]
          /\ wf_pc' = "deploy"
    /\ UNCHANGED <<other_vars, args, config, deployment_manager>>

\* step 8 with a deployment manager: deploy_to_cloudflare returns True or
\* False, having caught what it raised
DeployToCloudflare ==
    /\ wf_pc = "deploy"
    /\ deployment_manager # "None"
    /\ \E deployment_success \in BOOLEAN :
          /\ steps' = Append(steps, Call("deploy_to_cloudflare",
                                         IF deployment_success THEN "ok" ELSE "failed"))
          /\ results' = Finish(results, deployment_success)
    /\ wf_pc' = "returned"
    /\ UNCHANGED <<other_vars, args, config, deployment_manager>>

\* step 8 without a deployment manager
SkipDeployment ==
    /\ wf_pc = "deploy"
    /\ deployment_manager = "None"
    /\ results' = Finish(results, FALSE)
    /\ wf_pc' = "returned"
    /\ UNCHANGED <<other_vars, args, config, deployment_manager, steps>>

\* main: return 0 if results['success'] else 1
MainExit ==
    /\ wf_pc = "returned"
    /\ wf_pc' = IF results.success THEN "exit 0" ELSE "exit 1"
    /\ UNCHANGED <<other_vars, args, config, deployment_manager, steps, results>>

NextWorkflow ==
    \/ DryRun
    \/ StartWorkflow
    \/ CheckForNewData
    \/ LoadTickers
    \/ PrepareBatchData
    \/ RunPredictions
    \/ UpdatePredictions
    \/ UpdateStatistics
    \/ ExportCsv
    \/ DeployToCloudflare
    \/ SkipDeployment
    \/ MainExit

SpecWorkflow == InitWorkflow /\ [][NextWorkflow]_vars

StepNames == [i \in DOMAIN steps |-> steps[i].name]

\* run_workflow has returned
Returned == ~args.dry_run /\ wf_pc \in {"returned", "exit 0", "exit 1"}

\* C21: with --no-deploy, that is with skip_deployment true in the config,
\* the run never calls deploy_to_cloudflare, whether or not a deployment
\* manager is configured.
C21_NoDeploySkipsDeployment ==
    config.skip_deployment =>
        \A i \in DOMAIN steps : steps[i].name # "deploy_to_cloudflare"

\* C22: with --force a run that finds no new data goes on to load the
\* tickers; without --force it returns at once with success False and
\* without any later step.
C22_ForceOverridesNoNewData ==
    (Returned /\ steps[1] = Call("check_for_new_data", "empty")) =>
        IF args.force
        THEN Len(steps) >= 2 /\ steps[2].name = "load_tickers"
        ELSE Len(steps) = 1 /\ ~results.success


\* the order of the eight steps of run_workflow
StepOrder ==
    <<"check_for_new_data", "load_tickers", "prepare_batch_data",
      "run_predictions", "update_predictions", "update_statistics",
      "export_csv", "deploy_to_cloudflare">>

\* the first n steps were taken and each returned a usable value
RanClean(n) == Len(steps) >= n /\ \A i \in 1..n : steps[i].outcome = "ok"

\* C24: run_workflow takes its steps in the fixed order check-new-data,
\* load-tickers, prepare-batch, run-predictions, update-JSON,
\* update-statistics, export-CSV, deploy.  It reports success exactly when
\* the first seven went through with new data and non-empty values,
\* whatever became of the deployment; an exception in a step is caught,
\* appended to results['errors'], leaves success False and does not leave
\* run_workflow.
C24_StepOrderAndSuccess ==
    (~args.dry_run /\ wf_pc # "main") =>
        /\ wf_pc # "raised"
        /\ StepNames = SubSeq(StepOrder, 1, Len(steps))
        /\ results.success => RanClean(7)
        /\ (Returned /\ RanClean(7)) => results.success
        /\ \A i \in DOMAIN steps :
              steps[i].outcome = "raise" =>
                  /\ i = Len(steps)
                  /\ Returned
                  /\ ~results.success
                  /\ results.errors = <<"exception in " \o steps[i].name>>

\* a run whose deployment failed and which still reports success
C24_Witness ==
    /\ wf_pc = "exit 0"
    /\ Len(steps) = 8
    /\ steps[8] = Call("deploy_to_cloudflare", "failed")
    /\ results.success
    /\ results.deployment_url = "None"


(***************************************************************************)
(* SpecFormat: src/kronos_workflow.py, _format_prediction                  *)
(***************************************************************************)

\* 2024-03-15, the input end date of the CSV row in test_workflow.py
TEST_INPUT_END == 738960

\* config['prediction_days'] as _load_config defaults it
DEFAULT_PREDICTION_DAYS == 5

\* days before and after TEST_INPUT_END tried as the last input date
FormatSpan == 14

\* the last dates of an input frame: trading days
InputEnds ==
    {d \in (TEST_INPUT_END - FormatSpan)..(TEST_INPUT_END + FormatSpan) : Weekday(d) < 5}

\* raw_prediction['predictions'] by the last value of each run, in
\* hundredths of a cent: none, one run, two runs
FinalCloses == {<< >>, <<102 * 10000>>, <<104 * 10000, 101 * 10000>>}

\* the summary of _format_prediction for a frame ending on input_end at
\* last_close
FormatPrediction(input_end, last_close, final_closes) ==
    LET prediction_start == input_end + 3
        prediction_end == prediction_start + 4
        median_close == IF final_closes # << >> THEN Percentile(final_closes, 50)
                        ELSE last_close
    IN  [input_end_date |-> input_end,
         prediction_start_date |-> prediction_start,
         prediction_end_date |-> prediction_end,
         prediction_length |-> DEFAULT_PREDICTION_DAYS,
         input_end_date_close |-> last_close,
         predicted_end_close_price |-> median_close,
         predicted_move |-> ChangePercent(last_close, median_close)]

InitFormat ==
    /\ arg \in [input_end : InputEnds, last_close : {100 * 10000},
                final_closes : FinalCloses]
    /\ ret = Unset
    /\ ProcessorIdle

CallFormatPrediction ==
    /\ ~ret.done
    /\ ret' = [done |-> TRUE,
               summary |-> FormatPrediction(arg.input_end, arg.last_close,
                                            arg.final_closes)]
    /\ UNCHANGED <<workflow_vars, batch_vars, arg, processor_vars, ticker_vars>>

NextFormat == CallFormatPrediction

SpecFormat == InitFormat /\ [][NextFormat]_vars

\* the weekdays among the days from..to
TradingDays(from, to) == {d \in from..to : Weekday(d) < 5}

\* C25: prediction_start_date is the first Monday after the last input
\* date and prediction_end_date the Friday of that week, so that for every
\* input end date both are trading days and span five trading days.
C25_NextMondayToFriday ==
    ret.done =>
        LET start == ret.summary.prediction_start_date
            end == ret.summary.prediction_end_date
        IN  /\ start > arg.input_end
            /\ Weekday(start) = 0
            /\ \A d \in (arg.input_end + 1)..(start - 1) : Weekday(d) # 0
            /\ end = start + 4
            /\ Cardinality(TradingDays(start, end)) = ret.summary.prediction_length


(***************************************************************************)
(* SpecValidator: src/scripts/validate_data_structure.py                   *)
(***************************************************************************)

\* *_ohlcv_prediction.json files in the data directory
MaxValidatedFiles == 2
\* calls of validate_all_files on one validator
MaxValidations == 2

TopLevel == {"ticker_info", "data", "chart_data", "summary_stats"}

GoodCandle == [open |-> 100, high |-> 102, low |-> 99, close |-> 101]
\* a candle that closes above its high
BadCandle == [open |-> 100, high |-> 102, low |-> 99, close |-> 103]

\* a file as validate_file looks at it: whether it loads, its top-level
\* keys, and the candles of its data section
PredictionFile(json_ok, top_level, historical, predicted) ==
    [json_ok |-> json_ok, top_level |-> top_level,
     historical |-> historical, predicted |-> predicted]

\* the files tried: complete, complete without a forecast, unreadable,
\* without summary_stats, and with a historical candle that breaks OHLC
ValidatedFiles ==
    {PredictionFile(TRUE, TopLevel, <<GoodCandle>>, <<GoodCandle>>),
     PredictionFile(TRUE, TopLevel, <<GoodCandle>>, << >>),
     PredictionFile(FALSE, {}, << >>, << >>),
     PredictionFile(TRUE, TopLevel \ {"summary_stats"}, <<GoodCandle>>, <<GoodCandle>>),
     PredictionFile(TRUE, TopLevel, <<GoodCandle, BadCandle>>, <<GoodCandle>>)}

\* validate_candlestick_data: one error per candle that breaks
\* low <= open <= high and low <= close <= high
ValidateCandlestickData(candlesticks, data_type) ==
    LET broken == SelectSeq(candlesticks, LAMBDA c :
                    ~(c.low <= c.open /\ c.open <= c.high
                      /\ c.low <= c.close /\ c.close <= c.high))
    IN  [i \in DOMAIN broken |-> "Invalid OHLC values in " \o data_type]

\* the missing top-level fields, in the order of required_top_level
MissingTopLevel(file) ==
    SelectSeq(<<"ticker_info", "data", "chart_data", "summary_stats">>,
              LAMBDA f : f \notin file.top_level)

\* validate_file: (is_valid, errors, warnings)
ValidateFile(file) ==
    IF ~file.json_ok
    THEN [is_valid |-> FALSE, errors |-> <<"Invalid JSON">>, warnings |-> << >>]
    ELSE LET missing == MissingTopLevel(file)
             top == [i \in DOMAIN missing |-> "Missing top-level field: " \o missing[i]]
             has_data == "data" \in file.top_level
             hist == IF has_data
                     THEN ValidateCandlestickData(file.historical, "historical_candlesticks")
                     ELSE << >>
             pred == IF has_data /\ file.predicted # << >>
                     THEN ValidateCandlestickData(file.predicted, "predicted_candlesticks")
                     ELSE << >>
             errors == top \o hist \o pred
         IN  [is_valid |-> errors = << >>,
              errors |-> errors,
              warnings |-> IF has_data /\ file.predicted = << >>
                           THEN <<"Empty predicted_candlesticks (model prediction failure)">>
                           ELSE << >>]

\* DataStructureValidator.__init__: validation_results
NewValidationResults ==
    [total_files |-> 0, valid_files |-> 0, invalid_files |-> 0,
     errors |-> << >>, warnings |-> << >>,
     schema_compliance |-> TRUE, web_app_ready |-> TRUE]

\* the body of the for loop of validate_all_files for one file
CountFile(res, checked) ==
    [res EXCEPT
        !.valid_files = IF checked.is_valid THEN @ + 1 ELSE @,
        !.invalid_files = IF checked.is_valid THEN @ ELSE @ + 1,
        !.schema_compliance = IF checked.is_valid THEN @ ELSE FALSE,
        !.errors = @ \o checked.errors,
        !.warnings = @ \o checked.warnings]

\* the for loop of validate_all_files over the listed files
RECURSIVE ValidateEach(_, _, _)
ValidateEach(res, listing, dir) ==
    IF listing = << >> THEN res
    ELSE ValidateEach(CountFile(res, ValidateFile(dir[Head(listing)])),
                      Tail(listing), dir)

\* validate_all_files on the glob result listing; sample_size 0 is None
ValidateAllFilesOn(res, listing, sample_size, dir) ==
    LET sample == IF sample_size # 0
                  THEN SubSeq(listing, 1, Min(sample_size, Len(listing)))
                  ELSE listing
        counted == ValidateEach([res EXCEPT !.total_files = Len(sample)], sample, dir)
    IN  IF counted.invalid_files > 0
        THEN [counted EXCEPT !.web_app_ready = FALSE]
        ELSE counted

\* a validator constructed on a data directory
InitValidator ==
    /\ arg = [none |-> TRUE]
    /\ ret = Unset
    /\ ScriptsIdle
    /\ RunIdle
    /\ PoolIdle
    /\ validation_results = NewValidationResults
    /\ \E n \in 0..MaxValidatedFiles : data_dir \in [1..n -> ValidatedFiles]
    /\ validations = 0

\* one call of validate_all_files
ValidateAllFiles ==
    /\ validations < MaxValidations
    /\ validations' = validations + 1
    /\ \E listing \in Orderings(DOMAIN data_dir), sample_size \in {0, 1} :
          validation_results' =
              ValidateAllFilesOn(validation_results, listing, sample_size, data_dir)
    /\ UNCHANGED <<run_vars, pool_vars, batch_vars, arg, ret, processor_vars,
                   ticker_vars, data_dir>>

NextValidator == ValidateAllFiles

SpecValidator == InitValidator /\ [][NextValidator]_vars

\* C26: after any sequence of validate_all_files calls the counters
\* describe the most recent run: valid_files + invalid_files = total_files,
\* and schema_compliance and web_app_ready are False exactly when
\* invalid_files > 0.
C26_CountersDescribeLastRun ==
    /\ validation_results.valid_files + validation_results.invalid_files
          = validation_results.total_files
    /\ validation_results.schema_compliance = (validation_results.invalid_files = 0)
    /\ validation_results.web_app_ready = (validation_results.invalid_files = 0)


(***************************************************************************)
(* SpecDirection: src/fix_qqq_predictions.py, the summary statistics       *)
(***************************************************************************)

\* largest distance of the predicted close from the last close, in cents
MaxMoveCents == 400

\* the last historical close of the file, in cents
LastCloses == {300 * 100}

\* a / b for b > 0 rounded to the nearest integer, ties to the even one
RoundHalfEven(a, b) ==
    LET q == a \div b
        r == a % b
    IN  IF 2 * r > b \/ (2 * r = b /\ q % 2 = 1) THEN q + 1 ELSE q

\* the summary_stats fix_qqq_predictions saves, closes in cents:
\* price_change_percent is round(price_change_pct, 2) in hundredths of a
\* percent, direction compares the unrounded price_change_pct with 1 and -1
FixQqqSummary(last_close, predicted_close) ==
    LET price_change == predicted_close - last_close
    IN  [predicted_close |-> predicted_close,
         price_change |-> price_change,
         price_change_percent |-> RoundHalfEven(price_change * 100 * PctUnit, last_close),
         direction |->
             IF price_change * 100 > last_close THEN "Bullish"
             ELSE IF price_change * 100 < 0 - last_close THEN "Bearish"
             ELSE "Neutral"]

InitDirection ==
    /\ arg \in {[last_close |-> c, predicted_close |-> c + m] :
                    c \in LastCloses, m \in (0 - MaxMoveCents)..MaxMoveCents}
    /\ ret = Unset
    /\ ProcessorIdle

CallFixQqqPredictions ==
    /\ ~ret.done
    /\ ret' = [done |-> TRUE,
               summary_stats |-> FixQqqSummary(arg.last_close, arg.predicted_close)]
    /\ UNCHANGED <<workflow_vars, batch_vars, arg, processor_vars, ticker_vars>>

NextDirection == CallFixQqqPredictions

SpecDirection == InitDirection /\ [][NextDirection]_vars

\* C29: in the saved record direction is a function of the stored
\* price_change_percent: Bullish only if it is above 1, Bearish only if it
\* is below -1, and Neutral whenever it lies in [-1, 1], the values 1.0 and
\* -1.0 included.
C29_DirectionFollowsStoredPercent ==
    ret.done =>
        LET stored == ret.summary_stats.price_change_percent
            direction == ret.summary_stats.direction
        IN  /\ direction = "Bullish" => stored > 1 * PctUnit
            /\ direction = "Bearish" => stored < (0 - 1) * PctUnit
            /\ (stored >= (0 - 1) * PctUnit /\ stored <= 1 * PctUnit) => direction = "Neutral"


(***************************************************************************)
(* SpecPool: src/kronos_workflow.py, prepare_batch_data                    *)
(***************************************************************************)

\* ThreadPoolExecutor(max_workers=4)
MAX_WORKERS == 4

\* tickers handed to prepare_batch_data
MaxLoadTickers == 5

\* what prepare_lookback_data can come to: a frame with rows, an empty
\* frame, None, or an exception
LoadOutcomes == {"frame", "empty", "None", "raise"}

\* the futures of tickers 1..n right after executor.submit
Submitted(n) == [i \in 1..n |-> [ticker |-> i, state |-> "pending", outcome |-> "pending"]]

Running == {i \in DOMAIN futures : futures[i].state = "running"}
Pending == {i \in DOMAIN futures : futures[i].state = "pending"}

\* a loop body without the else branch: None and empty frames go nowhere
CollectWithoutElse(batch, failed, ticker, result) ==
    IF result = "frame"
    THEN [batch_data |-> batch \cup {ticker}, failed_tickers |-> failed]
    ELSE IF result \in {"raise", "timeout"}
    THEN [batch_data |-> batch, failed_tickers |-> Append(failed, ticker)]
    ELSE [batch_data |-> batch, failed_tickers |-> failed]

\* the body of `for future in futures` once future.result(timeout=10)
\* returned a value or raised: batch_data and failed_tickers after it
Collect(batch, failed, ticker, result) ==
    IF result = "frame"
    THEN [batch_data |-> batch \cup {ticker}, failed_tickers |-> failed]
    ELSE [batch_data |-> batch, failed_tickers |-> Append(failed, ticker)]

\* prepare_batch_data after it submitted one load per ticker
InitPool ==
    /\ arg = [none |-> TRUE]
    /\ ret = Unset
    /\ ScriptsIdle
    /\ RunIdle
    /\ ValidatorIdle
    /\ \E n \in 0..MaxLoadTickers : futures = Submitted(n)
    /\ collected = 0
    /\ batch_data = {}
    /\ batch_failed = << >>
    /\ future_results = << >>
    /\ pool_pc = "collect"

\* a free worker thread takes the oldest queued load
StartLoad ==
    /\ Pending # {}
    /\ Cardinality(Running) < MAX_WORKERS
    /\ LET i == CHOOSE j \in Pending : \A k \in Pending : j <= k
       IN  futures' = [futures EXCEPT ![i].state = "running"]
    /\ UNCHANGED <<run_vars, validator_vars, batch_vars, arg, ret, processor_vars,
                   ticker_vars, collected, batch_data, batch_failed,
                   future_results, pool_pc>>

\* a worker thread finishes its load, at any time and in any order
FinishLoad ==
    /\ \E i \in Running, o \in LoadOutcomes :
          futures' = [futures EXCEPT ![i].state = "finished", ![i].outcome = o]
    /\ UNCHANGED <<run_vars, validator_vars, batch_vars, arg, ret, processor_vars,
                   ticker_vars, collected, batch_data, batch_failed,
                   future_results, pool_pc>>

\* the main thread is through with the next future, result being what
\* future.result(timeout=10) did
Collected(result) ==
    LET ticker == futures[collected + 1].ticker
        after == Collect(batch_data, batch_failed, ticker, result)
    IN  /\ batch_data' = after.batch_data
        /\ batch_failed' = after.failed_tickers
        /\ future_results' = Append(future_results, result)
        /\ collected' = collected + 1

\* future.result(timeout=10) on a finished load: its value or exception
CollectResult ==
    /\ pool_pc = "collect"
    /\ collected < Len(futures)
    /\ futures[collected + 1].state = "finished"
    /\ Collected(futures[collected + 1].outcome)
    /\ UNCHANGED <<run_vars, validator_vars, batch_vars, arg, ret, processor_vars,
                   ticker_vars, futures, pool_pc>>

\* future.result(timeout=10) gives up on a load that has not finished
ResultTimeout ==
    /\ pool_pc = "collect"
    /\ collected < Len(futures)
    /\ futures[collected + 1].state # "finished"
    /\ Collected("timeout")
    /\ UNCHANGED <<run_vars, validator_vars, batch_vars, arg, ret, processor_vars,
                   ticker_vars, futures, pool_pc>>

\* the with block ends once every load has finished, and batch_data is
\* returned
ReturnBatchData ==
    /\ pool_pc = "collect"
    /\ collected = Len(futures)
    /\ \A i \in DOMAIN futures : futures[i].state = "finished"
    /\ pool_pc' = "returned"
    /\ UNCHANGED <<run_vars, validator_vars, batch_vars, arg, ret, processor_vars,
                   ticker_vars, futures, collected, batch_data, batch_failed,
                   future_results>>

NextPool ==
    \/ StartLoad
    \/ FinishLoad
    \/ CollectResult
    \/ ResultTimeout
    \/ ReturnBatchData

SpecPool == InitPool /\ [][NextPool]_vars

\* how often ticker t is listed in failed_tickers
TimesFailed(t) == Cardinality({k \in DOMAIN batch_failed : batch_failed[k] = t})

\* C30: whatever the order in which the worker threads finish, batch_data
\* holds exactly the tickers whose load gave a non-empty frame before
\* future.result timed out, every other collected ticker (None or empty
\* frame, exception, timeout) is listed once in failed_tickers, none is in
\* both, and every ticker is collected whatever became of the others.
C30_BatchPartition ==
    /\ Len(future_results) = collected
    /\ \A i \in DOMAIN futures :
          LET t == futures[i].ticker
          IN  IF i <= collected
              THEN /\ t \in batch_data <=>
                        /\ future_results[i] = "frame"
                        /\ futures[i].state = "finished"
                        /\ futures[i].outcome = "frame"
                   /\ TimesFailed(t) = IF t \in batch_data THEN 0 ELSE 1
              ELSE t \notin batch_data /\ TimesFailed(t) = 0
    /\ pool_pc = "returned" => collected = Len(futures)

\* five loads on four workers: the first raised, the second timed out and
\* then gave a frame, the third gave None, the fourth and fifth a frame
C30_Witness ==
    /\ pool_pc = "returned"
    /\ future_results = <<"raise", "timeout", "None", "frame", "frame">>
    /\ futures[2].outcome = "frame"
    /\ batch_data = {4, 5}
    /\ batch_failed = <<1, 2, 3>>

====
